---- MODULE Spec2Model ----
(***************************************************************************)
(* Model of the isometric voxel editor: the useVoxelGrid hook (voxel store *)
(* and bounded undo/redo history), the Grid component's pointer, touch and *)
(* keyboard handlers, the App and Controls wiring that drives them, the    *)
(* scene composer and colour math, and the ExportButton component.         *)
(*                                                                         *)
(* React state is modelled as the hook's source reads and writes it.  The  *)
(* variables voxels, history and historyIndex hold the values of the last  *)
(* render: they are what the useCallback closures of the handlers read.    *)
(* The variable pending holds the state that results from the updates that *)
(* have been queued with setVoxels, setHistory and setHistoryIndex; a      *)
(* render commits pending.  Updates queued by a discrete event (click,     *)
(* mousedown, mouseup, keydown, touchstart, touchend, contextmenu, change) *)
(* are rendered before the next event; updates queued by a continuous      *)
(* event (mouseenter, touchmove) are rendered by a scheduled task, which   *)
(* may run after further events have been handled.                        *)
(***************************************************************************)
EXTENDS Integers, Sequences, FiniteSets, TLC

VARIABLES
    voxels,         \* useState<Map<string, Voxel>>: value of the last render
    history,        \* useState<HistoryState[]>: value of the last render
    historyIndex,   \* useState<number>: value of the last render
    pending,        \* [voxels, history, historyIndex] after the queued updates
    selectedColor,  \* useState<string>
    blockHeight,    \* useState<number>
    lightingAngle,  \* useState<number>
    isDragging,     \* Grid: useState<boolean>
    dragMode,       \* Grid: useState<'add' | 'remove' | null>
    clock,          \* number of events handled so far
    now,            \* the time the next event reads: Date.now(), new Date()
    lastOp,         \* the last event handled (see TickError)
    session,        \* [script, budget, times, build]: the session starts
                    \* with script clicks of the script and handles budget
                    \* events in all, at times of the set times, in the build
                    \* of the JavaScript engine; in SpecClick also cell, the
                    \* cell that is clicked at the end
    colorCall,      \* the last call of adjustBrightness: [hex, amount, result]
    isExporting,    \* ExportButton: useState<boolean>
    exportSuccess,  \* ExportButton: useState<boolean>
    successTimers,  \* ExportButton: pending setTimeout callbacks
    selectedFormat, \* ExportButton: useState<ExportFormat>
    exportJob,      \* the call of handleExport suspended at its await, or NoJob
    downloads       \* the files downloaded so far: [filename, href]

\* the state of the ExportButton component and of its downloads
exportVars == <<isExporting, exportSuccess, successTimers, selectedFormat,
                exportJob, downloads>>

vars == <<voxels, history, historyIndex, pending, selectedColor, blockHeight,
          isDragging, dragMode, clock, now, lastOp, session, lightingAngle,
          colorCall, exportVars>>

-----------------------------------------------------------------------------
(* Program constants *)

MAX_HISTORY == 50

GRID_SIZE == 20

MIN_HEIGHT == 1

MAX_HEIGHT == 10

\* degrees the L key turns the light by, and the degrees of a full turn
LIGHT_STEP == 15

FULL_TURN == 360

TECH_COLORS == <<"#3B82F6", "#8B5CF6", "#10B981", "#F59E0B", "#14B8A6", "#475569">>

-----------------------------------------------------------------------------
(* Bounds of the model and the inputs the events are drawn from *)

MaxEvents == 4

\* SpecLong: clicks of the script that fills the history, then free events
Prefill == 49

MaxTail == 3

\* SpecUndoAll: clicks of the script
MaxEdits == 60

\* SpecHook: calls of the functions the hook returns
MaxCalls == 4

\* SpecScene: events of a session that edits the store and turns the light
MaxSceneEvents == 3

\* arguments of the calls of SpecHook: valid ones and ones out of range
CoordinateArgs == {-1, 0, 20}

HeightArgs == {0, 5, 11}

ColorArgs == {"#8B5CF6", "red"}

\* grid cells the pointer, touch and keyboard events of the model address
CellInputs == {<<0, 0>>, <<19, 0>>}

\* number keys pressed (1-6 select a preset colour)
ColorKeyInputs == {1, 2}

\* values of the custom <input type="color">
CustomColorInputs == {"#ff0000"}

\* values of the block-height range input (min 1, max 10)
HeightSliderInputs == {1, 10}

\* grid cells the clicks of SpecScene address
SceneCells == {<<0, 0>>, <<1, 0>>, <<0, 19>>, <<1, 1>>}

\* values of the lighting-angle range input (min 0, max 360)
AngleSliderInputs == {0, 7, 360}

\* arguments of setLightingAngle in calls of the hook's API
AngleArgs == {-400, 400, 725}

\* SpecColors: the channels of the colours, as two hex digits each, and the
\* integer amounts adjustBrightness is called with
ChannelArgs == {"00", "3B", "7f", "ff"}

AmountArgs == {-256, -255, -20, -1, 0, 1, 20, 255, 256}

\* SpecClick: events of the user's choice before the click gesture
MaxClickPrefix == 3

\* SpecExport: events of a session that edits the store and exports it
MaxExportEvents == 4

\* values of Date.now(), in milliseconds: equal times, times that increase
\* and decrease (the system clock can be set back), two different seconds
TimeArgs == {999, 1000}

\* Date.now() of the first event
START_TIME == 999

\* milliseconds of one second
MS_PER_SECOND == 1000

\* type ExportFormat
ExportFormats == {"svg", "png", "jpg"}

\* the value null of dragMode
NULL == "null"

\* the value undefined of Map.prototype.get
Undefined == [undefined |-> TRUE]

\* exportJob when no call of handleExport is suspended
NoJob == [format |-> "none"]

\* colorCall before the first call of adjustBrightness
NoCall == [hex |-> "", amount |-> 0, result |-> ""]

-----------------------------------------------------------------------------
(* Map<string, Voxel>: a sequence of entries in insertion order *)

getKey(x, y) == ToString(x) \o "," \o ToString(y)

MapKeys(m) == {m[i].key : i \in 1..Len(m)}

MapHas(m, k) == k \in MapKeys(m)

MapIndex(m, k) == CHOOSE i \in 1..Len(m) : m[i].key = k

\* Map.prototype.get
MapGet(m, k) == IF MapHas(m, k) THEN m[MapIndex(m, k)].value ELSE Undefined

\* Map.prototype.set: an existing key keeps its position, a new key goes last
MapSet(m, k, v) ==
    IF MapHas(m, k)
    THEN [m EXCEPT ![MapIndex(m, k)] = [key |-> k, value |-> v]]
    ELSE Append(m, [key |-> k, value |-> v])

\* Map.prototype.delete
MapDelete(m, k) ==
    IF MapHas(m, k)
    THEN LET i == MapIndex(m, k)
         IN  SubSeq(m, 1, i - 1) \o SubSeq(m, i + 1, Len(m))
    ELSE m

MapSize(m) == Len(m)

EmptyMap == <<>>

\* the content of a map: the function from its keys to their values
MapContent(m) == [k \in MapKeys(m) |-> MapGet(m, k)]

\* a % b of integers, b > 0: the remainder has the sign of a
Remainder(a, b) == IF a < 0 THEN 0 - ((0 - a) % b) ELSE a % b

\* Array.prototype.slice(0, end)
Slice0(s, end) ==
    LET e == IF end < 0 THEN (IF Len(s) + end < 0 THEN 0 ELSE Len(s) + end)
             ELSE IF end > Len(s) THEN Len(s) ELSE end
    IN  SubSeq(s, 1, e)

-----------------------------------------------------------------------------
(* Number: the IEEE 754 doubles of the projection.  A finite double is its *)
(* sign s (1 or -1) and its magnitude m = <<a2, a1, a0>>, a1 and a0 limbs  *)
(* of 22 bits: its value is s * (a2 * LIMB^2 + a1 * LIMB + a0) * 2^-54.    *)
(* Every finite double of the projection is a multiple of 2^-54, so that   *)
(* +, - and * are exact integer arithmetic followed by the rounding of the *)
(* result to 53 significant bits.  The integers of TLC have 32 bits: the   *)
(* magnitudes are below 2^21 and the integer operand of * is below 512 in  *)
(* absolute value.                                                         *)

\* bits of a limb
LIMB_BITS == 22

\* 2^LIMB_BITS
LIMB == 4194304

\* significant bits of a double
MANTISSA == 53

\* a2 of the magnitude of 1: 2^54 / LIMB^2
ONE == 1024

Min2(a, b) == IF a < b THEN a ELSE b

Max2(a, b) == IF a > b THEN a ELSE b

\* 2^n, and 1 for n <= 0
Pow2(n) == IF n <= 0 THEN 1 ELSE 2 ^ n

\* the number of bits of n > 0
BitLength(n) == IF n <= 0 THEN 0 ELSE CHOOSE k \in 1..30 : 2 ^ (k - 1) <= n /\ n < 2 ^ k

\* Infinity and -Infinity have the sign 1 and -1 and no magnitude, NaN has
\* the sign 0 and no magnitude
IsFinite(a) == a.m # <<>>

NAN == [s |-> 0, m |-> <<>>]

\* zero has the sign 1
Number(s, m) == IF m = <<0, 0, 0>> THEN [s |-> 1, m |-> m] ELSE [s |-> s, m |-> m]

\* an integer as a double
FromInt(n) == Number(IF n < 0 THEN -1 ELSE 1, <<(IF n < 0 THEN 0 - n ELSE n) * ONE, 0, 0>>)

\* the limbs t2, t1, t0 with the carries of t0 and t1 moved up
Carry(t2, t1, t0) ==
    LET u1 == t1 + t0 \div LIMB
    IN  <<t2 + u1 \div LIMB, u1 % LIMB, t0 % LIMB>>

\* round to nearest, ties to even: the bits below the 53rd are dropped
RoundMag(m) ==
    LET drop == BitLength(m[1]) + 2 * LIMB_BITS - MANTISSA
        q == Pow2(drop)
        r == m[3] % q
        base == m[3] - r
        up == r * 2 > q \/ (r * 2 = q /\ (base \div q) % 2 = 1)
    IN  IF drop <= 0 THEN m
        ELSE IF up THEN Carry(m[1], m[2], base + q)
        ELSE <<m[1], m[2], base>>

MagAdd(a, b) == Carry(a[1] + b[1], a[2] + b[2], a[3] + b[3])

MagLess(a, b) ==
    \/ a[1] < b[1]
    \/ a[1] = b[1] /\ a[2] < b[2]
    \/ a[1] = b[1] /\ a[2] = b[2] /\ a[3] < b[3]

\* a - b, for a >= b
MagSub(a, b) ==
    LET b0 == IF a[3] < b[3] THEN 1 ELSE 0
        b1 == IF a[2] - b0 < b[2] THEN 1 ELSE 0
    IN  <<a[1] - b[1] - b1, a[2] - b0 - b[2] + b1 * LIMB, a[3] - b[3] + b0 * LIMB>>

Neg(a) == Number(0 - a.s, a.m)

\* the sum of two doubles as a real number, not rounded
ExactPlus(a, b) ==
    IF IsFinite(a) /\ IsFinite(b)
    THEN IF a.s = b.s THEN Number(a.s, MagAdd(a.m, b.m))
         ELSE IF MagLess(a.m, b.m) THEN Number(b.s, MagSub(b.m, a.m))
         ELSE Number(a.s, MagSub(a.m, b.m))
    ELSE IF a.s = 0 \/ b.s = 0 THEN NAN
    ELSE IF IsFinite(a) THEN b
    ELSE IF IsFinite(b) \/ a.s = b.s THEN a
    ELSE NAN

ExactMinus(a, b) == ExactPlus(a, Neg(b))

\* the double nearest to an exact value
Rounded(e) == IF IsFinite(e) THEN Number(e.s, RoundMag(e.m)) ELSE e

\* a + b
Plus(a, b) == Rounded(ExactPlus(a, b))

\* a - b
Minus(a, b) == Plus(a, Neg(b))

\* a * k for an integer k
Times(a, k) ==
    LET n == IF k < 0 THEN 0 - k ELSE k
    IN  IF IsFinite(a)
        THEN Number(IF k < 0 THEN 0 - a.s ELSE a.s,
                    RoundMag(Carry(a.m[1] * n, a.m[2] * n, a.m[3] * n)))
        ELSE IF k = 0 THEN NAN
        ELSE [s |-> IF k < 0 THEN 0 - a.s ELSE a.s, m |-> <<>>]

\* a < b
Less(a, b) ==
    IF ~IsFinite(a) \/ ~IsFinite(b)
    THEN /\ a.s # 0
         /\ b.s # 0
         /\ a # b
         /\ IF IsFinite(a) THEN b.s = 1 ELSE a.s = -1
    ELSE IF a.s # b.s THEN a.s < b.s
    ELSE IF a.s = 1 THEN MagLess(a.m, b.m)
    ELSE MagLess(b.m, a.m)

\* Math.min and Math.max
MathMin(a, b) == IF a.s = 0 THEN a ELSE IF b.s = 0 \/ Less(b, a) THEN b ELSE a

MathMax(a, b) == IF a.s = 0 THEN a ELSE IF b.s = 0 \/ Less(a, b) THEN b ELSE a

\* the double in thousandths, rounded down to a multiple of 2^-10
Thousandths(a) == a.s * ((a.m[1] * 1000) \div ONE)

-----------------------------------------------------------------------------
(* isometric.ts: the projection *)

ISO_SCALE == 20

\* Math.cos(ISO_ANGLE), ISO_ANGLE = PI / 6: 0.8660254037844387
COS_ISO == [s |-> 1, m |-> <<886, 3397442, 3184982>>]

\* Math.sin(ISO_ANGLE): 0.49999999999999994 = 1/2 - 2^-54
SIN_ISO == [s |-> 1, m |-> <<511, 4194303, 4194303>>]

\* (x - y) * Math.cos(ISO_ANGLE) * ISO_SCALE, with d == x - y
IsoX(d) == Times(Times(COS_ISO, d), ISO_SCALE)

\* (x + y) * Math.sin(ISO_ANGLE) * ISO_SCALE - z * ISO_SCALE, with s == x + y
IsoY(s, z) == Minus(Times(Times(SIN_ISO, s), ISO_SCALE), FromInt(z * ISO_SCALE))

gridToIsometric(x, y, z) == [x |-> IsoX(x - y), y |-> IsoY(x + y, z)]

-----------------------------------------------------------------------------
(* isometric.ts and colors.ts: lighting and colour math.  A brightness     *)
(* offset is a fixed-point number: micro is the double rounded to an       *)
(* integer count of millionths, and ulps is what the double differs from   *)
(* it by, in units of 2^-49, where the exact offset is an integer and the  *)
(* double is not.                                                          *)

\* millionths in one unit
MICRO == 1000000

\* the unit of SinDeg and CosDeg: ten-millionths
SIN_SCALE == 10000000

\* Math.sin of 0, 1, ..., 90 degrees, in ten-millionths
SinQuarter ==
    <<0, 174524, 348995, 523360, 697565, 871557, 1045285, 1218693, 1391731,
      1564345, 1736482, 1908090, 2079117, 2249511, 2419219, 2588190, 2756374,
      2923717, 3090170, 3255682, 3420201, 3583679, 3746066, 3907311, 4067366,
      4226183, 4383711, 4539905, 4694716, 4848096, 5000000, 5150381, 5299193,
      5446390, 5591929, 5735764, 5877853, 6018150, 6156615, 6293204, 6427876,
      6560590, 6691306, 6819984, 6946584, 7071068, 7193398, 7313537, 7431448,
      7547096, 7660444, 7771460, 7880108, 7986355, 8090170, 8191520, 8290376,
      8386706, 8480481, 8571673, 8660254, 8746197, 8829476, 8910065, 8987940,
      9063078, 9135455, 9205049, 9271839, 9335804, 9396926, 9455186, 9510565,
      9563048, 9612617, 9659258, 9702957, 9743701, 9781476, 9816272, 9848078,
      9876883, 9902681, 9925462, 9945219, 9961947, 9975641, 9986295, 9993908,
      9998477, 10000000>>

\* Math.sin((d * Math.PI) / 180) for an integer d, in ten-millionths
SinDeg(d) ==
    LET a == d % 360
    IN  IF a <= 90 THEN SinQuarter[a + 1]
        ELSE IF a <= 180 THEN SinQuarter[(180 - a) + 1]
        ELSE IF a <= 270 THEN 0 - SinQuarter[(a - 180) + 1]
        ELSE 0 - SinQuarter[(360 - a) + 1]

\* Math.cos((d * Math.PI) / 180)
CosDeg(d) == SinDeg(d + 90)

\* an integer as a brightness offset
Amount(n) == [micro |-> n * MICRO, ulps |-> 0]

HexLower == "0123456789abcdef"

HexUpper == "0123456789ABCDEF"

IsHexDigit(ch) ==
    \E i \in 1..16 : SubSeq(HexLower, i, i) = ch \/ SubSeq(HexUpper, i, i) = ch

HexValue(ch) ==
    (CHOOSE i \in 1..16 : SubSeq(HexLower, i, i) = ch \/ SubSeq(HexUpper, i, i) = ch) - 1

\* String.prototype.replace('#', ''): the first '#' is removed
RECURSIVE RemoveHash(_)
RemoveHash(s) ==
    IF s = "" THEN ""
    ELSE IF Head(s) = "#" THEN Tail(s)
    ELSE Head(s) \o RemoveHash(Tail(s))

\* StrWhiteSpaceChar, the characters parseInt skips: space, tab, line feed,
\* carriage return, form feed, vertical tab (U+000B), no-break space
\* (U+00A0), U+1680 and U+FEFF.  The remaining ones (U+2000 to U+200A,
\* U+2028, U+2029, U+202F, U+205F, U+3000) cannot be written in a string of
\* TLA+, so that no string of the model holds them.
WhiteSpace == {" ", "\t", "\n", "\r", "\f", "", " ", " ", "﻿"}

RECURSIVE TrimStart(_)
TrimStart(s) ==
    IF s = "" \/ Head(s) \notin WhiteSpace THEN s ELSE TrimStart(Tail(s))

RECURSIVE ParseHexDigits(_, _)
ParseHexDigits(s, acc) ==
    IF s = "" \/ ~IsHexDigit(Head(s)) THEN acc
    ELSE ParseHexDigits(Tail(s), acc * 16 + HexValue(Head(s)))

\* parseInt(s, 16): leading white space is skipped, then a sign and a prefix
\* 0x or 0X are accepted, then the hex digits are read; NaN when there is no
\* digit
parseInt16(s) ==
    LET t == TrimStart(s)
        signed == t # "" /\ Head(t) \in {"+", "-"}
        u == IF signed THEN Tail(t) ELSE t
        prefixed == Len(u) >= 2 /\ SubSeq(u, 1, 2) \in {"0x", "0X"}
        w == IF prefixed THEN SubSeq(u, 3, Len(u)) ELSE u
    IN  IF w = "" \/ ~IsHexDigit(Head(w))
        THEN [nan |-> TRUE, value |-> 0]
        ELSE [nan |-> FALSE,
              value |-> IF signed /\ Head(t) = "-" THEN 0 - ParseHexDigits(w, 0)
                        ELSE ParseHexDigits(w, 0)]

\* (num >> shift) & 0xff, with div == 2^shift: >> rounds down and & takes
\* the bits of the two's complement; NaN converts to 0
ByteOf(num, div) == IF num.nan THEN 0 ELSE (num.value \div div) % 256

\* Number.prototype.toString(16)
RECURSIVE toString16(_)
toString16(n) ==
    IF n < 16 THEN SubSeq(HexLower, n + 1, n + 1)
    ELSE toString16(n \div 16) \o SubSeq(HexLower, (n % 16) + 1, (n % 16) + 1)

\* String.prototype.padStart(6, '0')
RECURSIVE padStart6(_)
padStart6(s) == IF Len(s) >= 6 THEN s ELSE padStart6("0" \o s)

\* Math.max(0, Math.min(255, c + amount)) as << and | truncate it.  c +
\* amount is rounded to a double: where amount is just below an integer, the
\* sum v of c and that integer is the result unless half the distance from v
\* to the double below it is less than the difference
ChannelPlus(c, amount) ==
    LET v == c + amount.micro \div MICRO
        p == Pow2(BitLength(v) - 1)
        below == 0 - amount.ulps
        kept == IF v = p THEN 32 * below > p ELSE 16 * below > p
    IN  IF amount.ulps < 0 /\ v >= 1 /\ v <= 255 /\ kept
        THEN v - 1
        ELSE Max2(0, Min2(255 * MICRO, c * MICRO + amount.micro)) \div MICRO

\* adjustBrightness with the green channel read with the shift of the red one
adjustBrightnessSameShift(hex, amount) ==
    LET num == parseInt16(RemoveHash(hex))
        r == ChannelPlus(ByteOf(num, 65536), amount)
        g == ChannelPlus(ByteOf(num, 65536), amount)
        b == ChannelPlus(ByteOf(num, 1), amount)
    IN  "#" \o padStart6(toString16(r * 65536 + g * 256 + b))

adjustBrightness(hex, amount) ==
    LET num == parseInt16(RemoveHash(hex))
        r == ChannelPlus(ByteOf(num, 65536), amount)
        g == ChannelPlus(ByteOf(num, 256), amount)
        b == ChannelPlus(ByteOf(num, 1), amount)
    IN  "#" \o padStart6(toString16(r * 65536 + g * 256 + b))

\* the difference of the double from the offset, in units of 2^-49, at the
\* angles where the offset of a face is an integer, the multiples of 30.
\* One row for each turn -100, ..., 100, holding for each of the angles
\* 360 * turn + 0, 30, ..., 330 the difference of the left face and that of
\* the right face, each as a sign and three hex digits:
\* calculateLighting(270, 'right') is -30.000000000000004 = -30 - 2 * 2^-49
LightingResidues ==
    <<"-016+000+040+000+000-094+000-10c+000-13c+09c+000+052+000-00c+000+000+060+000+0ce+000+106+15a+000",
      "-090+000-028+000+000-02c+000-092+000+158-126+000-1b4+000+05c+000+000-008+000+056+000+09e-138+000",
      "+178+000+199+000+000+03e+000-018+000-068-0bd+000+146+000-164+000+000+1b8+000-024+000+034+088+000",
      "+0fe+000-0fb+000+000-184+000-220+000+000-054+000-0c2+000-0fa+000+000-0dc+000-09e+000+1f6+020+000",
      "+084+000+0c6+000+000-11a+000+0da+000+068-215+000-048+000-092+000+000+0e4+000+16a+000-09e-04a+000",
      "+28a+000+05d+000+000-0b0+000-12c+000-158+07f+000+032+000-028+000+000+07c+000+0f0+000+124+178+000",
      "-06e+000-00c+000+000-048+000-0b4+000-0f0+0e8+000-1d4+000+040+000+000+014+000+076+000+0ba+10e+000",
      "-0e8+000+1b5+000+000+022+000-03a+000-088-0da+000-15c+000+0aa+000+000+1d4+000-002+000+050+0a4+000",
      "+11e+000+14c+000+000+08c+000-240+000-01c-070+000-0e2+000-118+000+000+16c+000-07c+000-018+03c+000",
      "+0a6+000+0e3+000+000-136+000-1c8+000+04c-007+000-068+000-0ae+000+000-128+000+18a+000+1a8-02e+000",
      "+02c+000+07a+000+000-0ce+000+132+000-174+062+000+010+000-046+000+000+098+000+112+000-0ea+194+000",
      "-04e+000+011+000+000-064+000-0d4+000-10c+0cb+000+08a+000+024+000+000+030+000+098+000+0d8+12a+000",
      "-0c6+000-058+000+000+004+000-05a+000-0a4-0f6+000-17c+000+08c+000+000-038+000+01e+000+06e+0c2+000",
      "+140+000+168+000+000+06e+000+01e+000-038-08d+000-104+000-134+000+000+188+000-05c+000+004+058+000",
      "+0c6+000+100+000+000-154+000-1e8+000+030-024+000-08a+000-0cc+000+000+120+000-0d4+000+1c6-010+000",
      "+04e+000+096+000+000-0ea+000+112+000+098-1e5+000-010+000-062+000+000+0b4+000+132+000-0ce-07a+000",
      "+254+000+02e+000+000-080+000-0f6+000-128+0ae+000+068+000+008+000+000+04c+000+0b8+000+0f4+148+000",
      "-0a6+000-03c+000+000-018+000-07c+000-0c0+118+000-19e+000+070+000+000-01c+000+040+000+08c+0de+000",
      "-11e+000+186+000+000+050+000-002+000-058-0aa+000-124+000-03c+000+000+090+000-03a+000+020+18a+000",
      "+0e8+000+11c+000+000-05a+000-0ca+000+014-040+000+096+000+02e+000+000+13c+000+08c+000+0ce+00c+000",
      "+06e+000-062+000+000+00e+000-190+000-098-0ec+000-032+000-080+000+000-044+000+014+000+17a-05c+000",
      "+134+000+04a+000+000-09e+000+02a+000-030-083+000+048+000-12c+000+000+068+000+0da+000-004+050+000",
      "+0bc+000-01f+000+000-14a+000+0a2+000-0dc-01a+000-07e+000-0c2+000+000+000+000+060+000-06e+0fc+000",
      "+042+000+08c+000+000-0e0+000-024+000-074+04f+000-146+000+0bc+000+000+0ac+000+128+000+03e+092+000",
      "-038+000+139+000+000+09e+000-0ea+000-008-05d+000-0cc+000+010+000+000+044+000-092+000+0ea+028+000",
      "+090+000+0d0+000+000-00e+000-072+000+060-109+000+0ee+000-09c+000+000+0f0+000+034+000+080-040+000",
      "+016+000-0ae+000+000-0ba+000-138+000-04c-0a0+000+026+000-032+000+000-090+000+0fa+000+12c+06c+000",
      "+0dc+000-002+000+000-050+000+082+000+01c-14c+000-0a0+000-0de+000+000+01c+000+082+000-050+002+000",
      "+1a4+000+0aa+000+000-0fc+000-044+000-090+032+000-026+000+0a0+000+000-04c+000+148+000+05a+0ae+000",
      "-016+000+040+000+000+080+000+034+000-13c-07a+000-0ee+000-00c+000+000+060+000-072+000-00e+15a+000",
      "+0b0+000+0ec+000+000-02c+000-092+000+044-010+000-1b4+000+05c+000+000+10c+000+056+000+09e-024+000",
      "+038+000+083+000+000+03e+000-158+000-068-0bd+000+006+000-050+000+000+0a4+000-024+000+14a-08c+000",
      "+0fe+000+01a+000+000-06e+000-0e0+000+000-054+000+07e+000-0fa+000+000+038+000+0a2+000+0e0+020+000",
      "+084+000-04f+000+000-11a+000+0da+000-0ac+015+000-048+000-092+000+000-030+000+02a+000-09e+0cc+000",
      "+00c+000+05d+000+000-0b0+000+014+000-044+07f+000-10e+000+0ec+000+000+07c+000+0f0+000+00e+062+000",
      "-06e+000+109+000+000+0ce+000-0b4+000-0f0-02e+000-094+000+040+000+000+014+000-0ca+000+0ba+10e+000",
      "+058+000+0a0+000+000+022+000-03a+000+090-0da+000-15c+000-06c+000+000+0c0+000-002+000+050-070+000",
      "-022+000+14c+000+000-08a+000-100+000-01c-070+000+05e+000-002+000+000+16c+000+0c4+000+0fc+03c+000",
      "+0a6+000-032+000+000-022+000+0b8+000+04c-11c+000-068+000-0ae+000+000-014+000+04a+000-080-02e+000",
      "+16c+000+07a+000+000-0ce+000-00e+000-060+062+000+010+000-15a+000+000-07c+000+112+000+02c+07e+000",
      "-04e+000+011+000+000-17a+000+06c+000-10c-04a+000-0b6+000+024+000+000+030+000+098+000-03e+12c+000",
      "+07a+000+0bd+000+000+004+000-05c+000-0a4+01f+000-17c+000+08c+000+000+0dc+000+01e+000+06e+0c2+000",
      "+000+000+054+000+000+06e+000-122+000-038-08d+000+03c+000-020+000+000+074+000-05c+000+11a+058+000",
      "+0c6+000-016+000+000-03e+000-0a8+000+030-024+000-08a+000-0cc+000+000+008+000+06c+000-064-010+000",
      "+04e+000+096+000+000-0ea+000-02e+000-07c+046+000-010+000-062+000+000+0b4+000-00e+000+048+09c+000",
      "-02c+000+02e+000+000+094+000-0f6+000-014-067+000-0d8+000+008+000+000+04c+000-088+000-022+032+000",
      "+09a+000+0da+000+000-018+000-07c+000+058+002+000-05e+000-0a4+000+000-01c+000+040+000+08c-038+000",
      "+022+000+070+000+000-0c4+000-002+000-058-0aa+000+01c+000-03c+000+000+090+000+106+000+020+074+000",
      "-058+000+007+000+000-05a+000+076+000-100-040+000-0ac+000+02e+000+000+028+000+08c+000-048+00c+000",
      "+06e+000+0b4+000+000+00e+000-050+000+07c+028+000-032+000-080+000+000+0d4+000+014+000+064-05c+000",
      "-00c+000+04a+000+000-09e+000+02a+000-030-083+000+048+000-014+000+000-0ac+000+0da+000-004+050+000",
      "+0bc+000-01f+000+000-034+000+0a2+000-0dc-01a+000-07e+000-0c2+000+000+000+000+060+000-06e+0fc+000",
      "+042+000+08c+000+000+034+000-024+000-074+04f+000-146+000-058+000+000+0ac+000-018+000+03e+092+000",
      "-038+000+024+000+000-078+000-0ea+000-008-05d+000+074+000+010+000+000+044+000+0ae+000+0ea+028+000",
      "+090+000-046+000+000-00e+000-072+000-0b4+00c+000-052+000-09c+000+000-028+000+034+000-094+0d4+000",
      "+016+000+066+000+000-0ba+000+008+000-04c+075+000+026+000-032+000+000+088+000-044+000+018+06c+000",
      "-064+000-002+000+000-050+000-0be+000+01c-037+000-0a0+000+038+000+000+01c+000+082+000+0c4+002+000",
      "+064+000+0aa+000+000+018+000-044+000-090-0e3+000-026+000-074+000+000-04c+000+008+000+05a-066+000",
      "+12a+000+040+000+000-094+000+034+000-028-07a+000+052+000-00c+000+000+060+000+0ce+000-00e+046+000",
      "-090+000-028+000+000-02c+000-092+000-048-010+000-074+000-02e+000+000-008+000-04a+000+09e+068+000",
      "+038+000-007+000+000-04c+000-018+000+020-0bd+000-09a+000-050+000+000+018+000-024+000+034-002+000",
      "+05e+000+0a5+000+000-06e+000-040+000+000+037+000-022+000-070+000+000+038+000+0a2+000+056+020+000",
      "-01c+000-04f+000+000-004+000-066+000-020-075+000-048+000-008+000+000-030+000-076+000+078+040+000",
      "+00c+000+05d+000+000-026+000+014+000+048-096+000-06e+000-028+000+000-010+000+050+000+00e-028+000",
      "+0d2+000+07f+000+000-048+000-014+000+028-02e+000+00c+000+040+000+000+0a0+000+076+000+030-008+000",
      "+058+000+015+000+000+022+000-0da+000-088-04f+000-01c+000+020+000+000+034+000-002+000+050+0a4+000",
      "+07e+000+037+000+000+000+000+040+000-01c-070+000-042+000-08c+000+000+058+000+024+000-018-050+000",
      "+006+000+058+000+000-022+000-088+000-040-007+000+038+000+068+000+000+078+000+04a+000+00a+05c+000",
      "+02c+000-011+000+000+048+000-0ae+000-060-028+000+010+000-046+000+000+010+000-02e+000+0b4+07e+000",
      "+052+000+011+000+000+026+000-034+000+008+040+000-0b6+000-066+000+000+030+000-008+000-03e+016+000",
      "-026+000+0bd+000+000-086+000-05c+000-018+01f+000-03c+000+002+000+000+050+000+0be+000+06e+038+000",
      "+000+000-037+000+000-01c+000+01e+000-038-08d+000-064+000-020+000+000-018+000+044+000+004-032+000",
      "+026+000+075+000+000-03e+000-008+000-05c-024+000+016+000+04a+000+000+008+000+06c+000+026-010+000",
      "+04e+000+00c+000+000+02c+000-02e+000+010-046+000-010+000-062+000+000+02c+000-00e+000+048+010+000",
      "-02c+000+02e+000+000-080+000-056+000-014+024+000-038+000+008+000+000-040+000+018+000+068+032+000",
      "-006+000+04f+000+000-018+000+024+000+058+002+000-05e+000-01a+000+000+070+000+040+000+000-038+000",
      "+022+000-01a+000+000-038+000-0a2+000-058-01f+000+01c+000-03c+000+000+004+000-03a+000+020+074+000",
      "+048+000+007+000+000-05a+000-02a+000+014+04a+000-00c+000-05c+000+000+028+000-014+000+044+00c+000",
      "-032+000+028+000+000+00e+000-050+000-010-062+000-032+000+00c+000+000+048+000+014+000-026+02e+000",
      "+094+000+04a+000+000-014+000+02a+000-030+007+000+048+000-014+000+000+024+000+03a+000-004+050+000",
      "+01c+000+026+000+000+010+000-04e+000-00c-01a+000-02e+000-038+000+000+000+000+010+000+01c+02c+000",
      "-00e+000+002+000+000-010+000-024+000+018-03c+000-006+000-014+000+000-024+000+038+000-008+008+000",
      "+068+000+024+000+000+014+000+006+000-050-018+000-02c+000+010+000+000+044+000+00e+000+01a+028+000",
      "+040+000+000+000+000-00e+000-022+000-02c+00c+000-002+000-010+000+000+020+000-01c+000+03c+004+000",
      "+016+000-024+000+000-030+000+008+000-008-05a+000-02a+000+014+000+000-004+000+05c+000+018-020+000",
      "-014+000+043+000+000-00c+000-01e+000-028-037+000+000+000-00e+000+000+01c+000+032+000-00c+002+000",
      "+014+000+01f+000+000-02e+000+00c+000-004-013+000-026+000+016+000+000-008+000+008+000+014+024+000",
      "-016+000+040+000+000-00a+000-01c+000+020-034+000+002+000-00c+000+000-02c+000+02e+000+038+000+000",
      "+010+000+01d+000+000-02c+000+00e+000-004-010+000-024+000-02e+000+000-008+000+006+000+014+022+000",
      "-018+000-007+000+000-008+000-018+000-024+014+000-04a+000-00a+000+000+018+000-024+000+012-002+000",
      "+00e+000-008+000+000-006+000-018+000+000-00e+000+006+000-008+000+000-00c+000+002+000-012-004+000",
      "+034+000-00a+000+000-028+000-016+000-020-00d+000-020+000-008+000+000+014+000+002+000+010+01e+000",
      "+00c+000+018+000+000-004+000-014+000+004-00c+000+00a+000-006+000+000+014+000+000+000+00e-006+000",
      "+00a+000+016+000+000-002+000-014+000+004-00a+000+00c+000-004+000+000-010+000-002+000-016+01c+000",
      "+008+000+015+000+000+000+000-012+000+004-00a+000+00c+000-004+000+000+010+000+026+000+00c+008+000",
      "+006+000+003+000+000+000+000+004+000+008+009+000-01a+000-014+000+000+010+000+010+000+00a+008+000",
      "+006+000+002+000+000+000+000+004+000-008-007+000-004+000+000+000+000+000+000-006+000-008-00a+000",
      "+004+000+000+000+000+002+000+006+000-008-006+000-004+000+000+000+000-004+000+00e+000+008+006+000",
      "+002+000+000+000+000-004+000-002+000+000+004+000-002+000+000+000+000+004+000+002+000-002+004+000",
      "+002+000+002+000+000+000+000-002+000-004+000+000+000+000+000+000+000+000+000+000+000+000+000+000",
      "+000+000+000+000+000+000+000+000+000+000+000+000+000+000+000+000+000-004+000-002+000+000-002+000",
      "-002+000-004+000+000-002+000+002+000+004-001+000+002+000-004+000+000+000+000-002+000-004+000+000",
      "-002+000-006+000+000+008+000+00e+000-004+000+000+004+000+006+000+000-008+000+006+000+002+000+000",
      "-004+000+00a+000+000-008+000-006+000+000+001+000+004+000+008+000+000-008+000+004+000+000-002+000",
      "-006+000-008+000+000+00a+000+010+000+010+014+000+01a+000-008+000+000+008+000+004+000+000-004+000",
      "-006+000-009+000+000+00c+000+026+000+010+004+000-00c+000+00a+000+000+004+000-012+000+000-014+000",
      "-008+000-01c+000+000-016+000-002+000-010+005+000-00c+000+00a+000+000+004+000-014+000-002-016+000",
      "-00a+000+006+000+000+00e+000+000+000+014+006+000-00a+000+00c+000+000+004+000-014+000-004-018+000",
      "-00c+000-01e+000+000+010+000+002+000+014+007+000+020+000+00c+000+000-020+000-016+000-028+00a+000",
      "-034+000+004+000+000-012+000+002+000-00c+008+000-006+000+00e+000+000+000+000-018+000-006+008+000",
      "-00e+000+002+000+000+012+000-024+000+018+00a+000+04a+000-014+000+000-024+000-018+000-008+008+000",
      "+018+000-022+000+000+014+000+006+000-008+02e+000+024+000+010+000+000-004+000+00e+000-02c-01c+000",
      "-010+000+000+000+000+038+000+02e+000-02c+00c+000-002+000+034+000+000+020+000-01c+000-00a-040+000",
      "+016+000-024+000+000+014+000+008+000-008-016+000+026+000+014+000+000-004+000+00c+000-02e-020+000",
      "-014+000-002+000+000-00c+000+032+000+01c+00e+000+000+000+038+000+000-028+000-01e+000-00c-044+000",
      "+014+000+01f+000+000+018+000+05c+000-004-013+000+02a+000+05a+000+000-008+000+008+000-030+024+000",
      "-016+000-004+000+000+03c+000-01c+000+020+011+000+002+000-00c+000+000-02c+000-022+000-00e+000+000",
      "-040+000-028+000+000+01a+000+00e+000+044-011+000+02c+000+018+000+000-050+000+006+000+014-024+000",
      "-068+000-007+000+000-008+000+038+000-024+014+000+006+000+03c+000+000+018+000-024+000-010-002+000",
      "+00e+000-02b+000+000+01c+000+010+000+000+037+000+02e+000+01a+000+000-00c+000-04e+000+010-026+000",
      "-01c+000-04f+000+000-004+000+03a+000+024+015+000-048+000-008+000+000-030+000+02a+000-014-04a+000",
      "-094+000-02e+000+000-026+000+014+000+048-00c+000+032+000+062+000+000-010+000-050+000+00e-028+000",
      "+032+000-00c+000+000+044+000-014+000+028+05d+000+00c+000-04a+000+000+014+000-02a+000-05a-008+000",
      "-048+000-075+000+000+020+000-03a+000+004+03c+000-01c+000+020+000+000-058+000-0a2+000-038+01a+000",
      "-022+000+037+000+000+000+000+040+000+070+01a+000+05e+000-002+000+000+058+000+024+000-018-050+000",
      "+006+000-032+000+000+068+000+018+000-040-007+000+038+000-024+000+000-014+000-056+000-080-02e+000",
      "+02c+000-010+000+000+048+000-00e+000+02c+062+000+010+000+046+000+000+010+000-02e+000+02c-00c+000",
      "-04e+000+011+000+000+026+000+06c+000+008-04a+000-016+000+024+000+000-05c+000-008+000-03e-074+000",
      "-026+000+032+000+000+004+000+044+000-018+01f+000+064+000+08c+000+000-038+000+01e+000-01c+038+000",
      "+000+000-037+000+000+06e+000+0be+000+050-002+000+03c+000-020+000+000-018+000-05c+000-086-0bc+000",
      "+026+000-016+000+000-03e+000-008+000+030+066+000+0b6+000-040+000+000+008+000-034+000+026-010+000",
      "-052+000-07e+000+000+0b4+000-02e+000+010+046+000-010+000+028+000+000-060+000-0ae+000+048+010+000",
      "-02c+000-05d+000+000+00a+000+04a+000+078-067+000-038+000+008+000+000-040+000-088+000-022-058+000",
      "-006+000+04f+000+000-018+000+024+000+058+08d+000+042+000+070+000+000-01c+000+040+000+000-038+000",
      "-07e+000-0a4+000+000+050+000-002+000+034-01f+000+01c+000+050+000+000-088+000-0da+000+022-014+000",
      "-058+000+007+000+000+030+000+076+000+0a0-040+000-00c+000+02e+000+000+028+000-014+000-048-080+000",
      "-0d2+000+028+000+000+00e+000+050+000-010+028+000+06e+000+096+000+000+048+000+014+000-026-05c+000",
      "-00c+000-040+000+000+078+000-076+000-030+007+000+048+000+074+000+000-020+000-066+000-004+050+000",
      "+01c+000-01f+000+000+056+000+0a2+000+038+070+000+022+000-038+000+000+000+000-040+000-06e-0a4+000",
      "-05e+000+002+000+000+034+000-024+000+018+04f+000+09a+000+0bc+000+000+020+000-018+000-04c+008+000",
      "-038+000-067+000+000+09e+000-04a+000-008+02e+000+074+000+010+000+000-048+000-092+000-02c+028+000",
      "+090+000-046+000+000-00e+000+0ce+000+060+00c+000-052+000+07a+000+000-028+000+034+000-094-040+000",
      "-12a+000+066+000+000+05a+000+008+000-04c+075+000+026+000+0e4+000+000-090+000-044+000+018-0aa+000",
      "-064+000-002+000+000+0c4+000+082+000+01c-037+000+0a0+000+038+000+000+01c+000-0be+000-050+002+000",
      "+064+000-06c+000+000+018+000-044+000+088+032+000-026+000-074+000+000-04c+000+008+000-0ba-066+000",
      "-016+000-0d4+000+000-094+000+034+000-028+09b+000+052+000-00c+000+000-0b4+000-072+000-00e+046+000",
      "-090+000-028+000+000+0ea+000+0ae+000+044-011+000-074+000+05c+000+000-008+000-0ea+000-078-024+000",
      "+038+000-092+000+000+03e+000-018+000+0ac+058+000+146+000-050+000+000-074+000-024+000+034-08c+000",
      "-042+000-0fb+000+000-06e+000+060+000+000+0c2+000+07e+000+01a+000+000-0dc+000+0a2+000-034+020+000",
      "-0bc+000-04f+000+000-004+000+0da+000-0ac+015+000-048+000+084+000+000-030+000+02a+000-09e-04a+000",
      "+00c+000+05d+000+000+064+000+014+000+0d4+07f+000+032+000-028+000+000+07c+000-050+000+00e-0b4+000",
      "-06e+000-00c+000+000-048+000+08c+000+028-02e+000+0ac+000+040+000+000-100+000+076+000-05a-008+000",
      "+058+000-075+000+000+020+000+106+000+090+03c+000-01c+000+0aa+000+000-058+000-002+000-0c4-070+000",
      "-022+000+037+000+000+08c+000+040+000-01c+0a5+000+05e+000-002+000+000+058+000-07c+000-018-0da+000",
      "-09a+000-032+000+000-022+000-088+000+04c-007+000+0d8+000+068+000+000-014+000-0f6+000+094-02e+000",
      "+02c+000-09c+000+000+048+000-00e+000+0b4+062+000+010+000-046+000+000-07c+000-02e+000-0ea-096+000",
      "-04e+000+011+000+000-064+000+06c+000+008+0cb+000+08a+000+024+000+000+030+000-0a8+000-03e+016+000",
      "-0c6+000-058+000+000+11a+000-05c+000+074+01f+000-03c+000+08c+000+000-038+000-122+000+06e-054+000",
      "+000+000-0c2+000+000+06e+000+01e+000+0dc-08d+000+17c+000-020+000+000-0a4+000-05c+000+004-0bc+000",
      "-07a+000-12b+000+000-03e+000+098+000+030-024+000+0b6+000+04a+000+000-10c+000+06c+000-17a-010+000",
      "+04e+000-07e+000+000+02c+000+112+000-07c+15a+000-010+000-062+000+000-060+000-00e+000-0ce-07a+000",
      "-16c+000+02e+000+000-080+000+04a+000-014+0ae+000+068+000+11c+000+000+04c+000+0b8+000-022+032+000",
      "-0a6+000-03c+000+000+0fc+000+0c4+000+16c+002+000-05e+000+070+000+000-01c+000-100+000-08a-14c+000",
      "+022+000+070+000+000+050+000-002+000+0c0+06c+000+15c+000+0da+000+000+090+000-03a+000+022-0a0+000",
      "-058+000-10e+000+000+0ba+000-0ca+000+014-040+000+094+000+02e+000+000-0f0+000-0b4+000+0ce-108+000",
      "+06e+000-062+000+000+00e+000+0f0+000+07c-0ec+000+10e+000-080+000+000-044+000+014+000-0b0-05c+000",
      "-00c+000-0cb+000+000-09e+000+02a+000-030+092+000+048+000-014+000+000-0ac+000+0da+000-11a+050+000",
      "-084+000-01f+000+000+0e0+000+0a2+000+038+0fa+000-07e+000+054+000+000+000+000-0e0+000-06e-01a+000",
      "-0fe+000+08d+000+000+14a+000-024+000+0a4+04f+000-006+000+0bc+000+000-068+000-158+000+03e-084+000",
      "-038+000+024+000+000+09e+000+056+000+10c-05d+000+1b4+000+010+000+000+044+000-092+000-02c-0ec+000",
      "-0b0+000-15a+000+000-00e+000-072+000+060+00c+000+0ee+000+07a+000+000-13c+000+034+000+080-040+000",
      "+016+000-0ae+000+000+05a+000+148+000-04c-0a0+000+026+000-032+000+000-090+000-044+000-0fc-0aa+000",
      "-1a4+000-002+000+000-050+000+082+000+01c+0de+000+0a0+000+14c+000+000+01c+000+082+000-050+002+000",
      "-0dc+000-06c+000+000+12c+000+0fa+000-090+032+000-026+000+0a0+000+000-04c+000-138+000-0ba+0ae+000",
      "-016+000+040+000+000+080+000+034+000+0f0+09b+000-0ee+000+108+000+000+060+000-072+000-00e-0d0+000",
      "-090+000-028+000+000+0ea+000-092+000+044-011+000+0cc+000+05c+000+000-008+000-0ea+000+09e-138+000",
      "+038+000-092+000+000+03e+000+128+000+0ac-0bd+000+146+000-050+000+000-074+000-024+000-0e0-08c+000",
      "-042+000-0fb+000+000-06e+000+060+000+000+0c2+000+07e+000+01a+000+000-0dc+000+0a2+000-14a+020+000",
      "-0bc+000-04f+000+000-004+000+0da+000+068+12b+000-048+000+084+000+000-030+000+02a+000-09e-04a+000",
      "-134+000+05d+000+000+17a+000+014+000-044+07f+000+032+000+0ec+000+000-098+000-190+000+00e+062+000",
      "-06e+000-00c+000+000+0ce+000+08c+000+13c-02e+000-096+000+040+000+000+014+000-0ca+000-05a-11c+000",
      "-0e8+000-18a+000+000+020+000-03a+000+090+03c+000+124+000+0aa+000+000-058+000-002+000+050-186+000",
      "+11e+000-0de+000+000+08c+000+040+000-01c-070+000+19e+000-118+000+000-0c0+000-07c+000-018+03c+000",
      "+0a6+000-147+000+000+0f4+000+0b8+000+04c-007+000-068+000-0ae+000+000-128+000-0f6+000-080-02e+000",
      "-254+000+07a+000+000-0ce+000+132+000+0b4+062+000+010+000+1e4+000+000+098+000+112+000-0ea-096+000",
      "-04e+000+011+000+000+1c6+000-0d4+000+120+0cb+000+08a+000+024+000+000+030+000-1e8+000-154-100+000",
      "-0c6+000-058+000+000+004+000-05c+000+188+134+000+104+000+08c+000+000-038+000+01e+000+06e-168+000",
      "-140+000-0c2+000+000+06e+000+01e+000-038-08d+000+17c+000+0f6+000+000-0a4+000-05a+000+004+058+000",
      "+0c6+000-12a+000+000+0d8+000+098+000+030-024+000-08a+000-0cc+000+000-10c+000-0d4+000-064-010+000",
      "+04e+000-194+000+000-0ea+000+112+000+098+046+000-010+000-062+000+000-174+000+132+000-0ce-07a+000",
      "-02c+000+02e+000+000+1a8+000+18a+000-128+0ae+000+068+000+008+000+000+04c+000-1c8+000-136-0e4+000",
      "-0a6+000-03c+000+000-018+000-07c+000+16c+118+000+0e2+000+070+000+000-01c+000-240+000+08c-14c+000",
      "-11e+000-0a4+000+000+050+000-002+000+1d4-0aa+000+15c+000+0da+000+000-088+000-03a+000+022-1b4+000",
      "+0e8+000-10e+000+000+0ba+000+076+000+014-040+000+1d4+000-0e8+000+000-0f0+000-0b4+000-048+00c+000",
      "+06e+000-177+000+000+124+000+0f0+000+07c+028+000-032+000-080+000+000-158+000-12c+000-0b0-05c+000",
      "-28a+000+04a+000+000-09e+000+16a+000+0e4+092+000+048+000+214+000+000+068+000+0da+000-11a-0c6+000",
      "-084+000-01f+000+000+1f6+000-09e+000-0dc+0fa+000+0c2+000+054+000+000+000+000-220+000-184+0fc+000",
      "-0fe+000-088+000+000+034+000-024+000+1b8+164+000-146+000+0bc+000+000-068+000-018+000+03e-198+000",
      "-178+000+139+000+000+09e+000+056+000-008-05d+000+1b4+000+126+000+000+158+000-092+000-02c+028+000",
      "+090+000-15a+000+000+106+000+0ce+000+060+00c+000-052+000-09c+000+000-13c+000-10c+000-094-040+000",
      "+016+000-1c4+000+000-0ba+000+148+000+0c8+075+000+026+000-032+000+000-1a4+000+0fc+000-0fc-0aa+000">>

\* a sign and hex digits as an integer
SignedHex(s) ==
    IF Head(s) = "-" THEN 0 - ParseHexDigits(Tail(s), 0) ELSE ParseHexDigits(Tail(s), 0)

\* the difference that the rows hold for a face at the angle 30 * step, the
\* middle row being the turn 0
ResidueIn(rows, step, faceType) ==
    LET k == step + ((Len(rows) - 1) \div 2) * 12
        at == (k % 12) * 8 + (IF faceType = "left" THEN 1 ELSE 5)
    IN  SignedHex(SubSeq(rows[k \div 12 + 1], at, at + 3))

\* Math.sin and Math.cos are implementation-approximated: the builds of the
\* engine whose doubles are known.  LightingResidues holds those of Chrome
\* 147; node 20 returns the doubles of node 22
MathBuilds == {"Chrome 147", "node 22"}

\* the angles and faces where node 22 returns another double than Chrome
\* 147, with the difference from the integer offset in units of 2^-49
NodeResidues ==
    {<<-31710, "left", 300>>, <<-17250, "left", 141>>, <<-8340, "right", 34>>,
     <<-7410, "left", 8>>, <<8340, "right", 34>>, <<12630, "left", 8>>,
     <<31710, "left", -299>>}

\* the residue of an angle in the build of the session: 0 where the offset
\* is no integer; the multiples of 30 beyond the table have no value
LightingResidue(angle, faceType) ==
    IF angle % 30 # 0 THEN 0
    ELSE IF session.build = "node 22"
            /\ \E e \in NodeResidues : e[1] = angle /\ e[2] = faceType
    THEN (CHOOSE e \in NodeResidues : e[1] = angle /\ e[2] = faceType)[3]
    ELSE ResidueIn(LightingResidues, angle \div 30, faceType)

\* the brightness offset of a face
calculateLighting(angle, faceType) ==
    CASE faceType = "top" -> Amount(0)
      [] faceType = "left" ->
             [micro |-> (0 - 20) * MICRO + (SinDeg(angle) * 10) \div (SIN_SCALE \div MICRO),
              ulps |-> LightingResidue(angle, "left")]
      [] faceType = "right" ->
             [micro |-> (0 - 30) * MICRO + (CosDeg(angle) * 10) \div (SIN_SCALE \div MICRO),
              ulps |-> LightingResidue(angle, "right")]
      [] OTHER -> Amount(0)

-----------------------------------------------------------------------------
(* isometric.ts: the faces of a voxel and the scene *)

\* padding of the viewBox, in units
PADDING == 40

\* side of the viewBox of the empty scene, in units
DEFAULT_VIEW == 400

\* factor of x in the sort key of a voxel
ORDER_FACTOR == 100

\* Infinity
INFINITY == [s |-> 1, m |-> <<>>]

\* the grid-space corners p1..p4 of a face, each <<x, y, z>>
FaceCorners(voxel, faceType) ==
    LET x == voxel.x
        y == voxel.y
        height == voxel.height
    IN  CASE faceType = "top" ->
               <<<<x, y, height>>, <<x + 1, y, height>>,
                 <<x + 1, y + 1, height>>, <<x, y + 1, height>>>>
          [] faceType = "left" ->
               <<<<x, y, height>>, <<x, y + 1, height>>,
                 <<x, y + 1, 0>>, <<x, y, 0>>>>
          [] faceType = "right" ->
               <<<<x + 1, y, height>>, <<x + 1, y + 1, height>>,
                 <<x + 1, y + 1, 0>>, <<x + 1, y, 0>>>>
          [] OTHER -> <<>>

\* path is the sequence of the points of "M p1 L p2 L p3 L p4 Z"
generateVoxelFace(voxel, faceType, angle) ==
    LET c == FaceCorners(voxel, faceType)
    IN  [path |-> [i \in 1..Len(c) |-> gridToIsometric(c[i][1], c[i][2], c[i][3])],
         fill |-> adjustBrightness(voxel.color, calculateLighting(angle, faceType))]

\* Array.from(voxels.values())
MapValues(m) == [i \in 1..Len(m) |-> m[i].value]

\* mutant: the comparator is orderB - orderA
sortKeyNegated(v) == 0 - (v.y + v.x * ORDER_FACTOR)

\* mutant: the sort key is x + y * 100
sortKeyTransposed(v) == v.x + v.y * ORDER_FACTOR

sortKey(v) == v.y + v.x * ORDER_FACTOR

\* the sorted sequence s with v inserted after the elements that do not
\* compare greater than v
RECURSIVE InsertSorted(_, _)
InsertSorted(s, v) ==
    IF s = <<>> THEN <<v>>
    ELSE IF sortKey(s[Len(s)]) - sortKey(v) <= 0 THEN Append(s, v)
    ELSE Append(InsertSorted(SubSeq(s, 1, Len(s) - 1), v), s[Len(s)])

\* Array.prototype.sort with the comparator orderA - orderB (a stable sort)
RECURSIVE SortByKey(_)
SortByKey(s) ==
    IF s = <<>> THEN <<>>
    ELSE InsertSorted(SortByKey(SubSeq(s, 1, Len(s) - 1)), s[Len(s)])

\* mutant: the voxels are rendered in the insertion order of the map
valuesUnsorted(m) == MapValues(m)

sortedVoxels(m) == SortByKey(MapValues(m))

\* mutant: only the corners at z = height
cornersOfTop(voxel) ==
    <<gridToIsometric(voxel.x, voxel.y, voxel.height),
      gridToIsometric(voxel.x + 1, voxel.y, voxel.height),
      gridToIsometric(voxel.x + 1, voxel.y + 1, voxel.height),
      gridToIsometric(voxel.x, voxel.y + 1, voxel.height)>>

corners(voxel) ==
    <<gridToIsometric(voxel.x, voxel.y, voxel.height),
      gridToIsometric(voxel.x + 1, voxel.y, voxel.height),
      gridToIsometric(voxel.x + 1, voxel.y + 1, voxel.height),
      gridToIsometric(voxel.x, voxel.y + 1, voxel.height),
      gridToIsometric(voxel.x, voxel.y, 0),
      gridToIsometric(voxel.x + 1, voxel.y, 0),
      gridToIsometric(voxel.x + 1, voxel.y + 1, 0),
      gridToIsometric(voxel.x, voxel.y + 1, 0)>>

\* a = Math.min(a, d) for the doubles d of s in turn
RECURSIVE MinOver(_, _)
MinOver(a, s) ==
    IF s = <<>> THEN a
    ELSE IF MathMin(a, Head(s)) = a THEN MinOver(a, Tail(s))
    ELSE MinOver(Head(s), Tail(s))

\* a = Math.max(a, d) for the doubles d of s in turn
RECURSIVE MaxOver(_, _)
MaxOver(a, s) ==
    IF s = <<>> THEN a
    ELSE IF MathMax(a, Head(s)) = a THEN MaxOver(a, Tail(s))
    ELSE MaxOver(Head(s), Tail(s))

\* corners.forEach: the bounds b extended by the points of s
ExtendBounds(b, s) ==
    LET xs == [i \in 1..Len(s) |-> s[i].x]
        ys == [i \in 1..Len(s) |-> s[i].y]
    IN  [minX |-> MinOver(b.minX, xs), minY |-> MinOver(b.minY, ys),
         maxX |-> MaxOver(b.maxX, xs), maxY |-> MaxOver(b.maxY, ys)]

\* sortedVoxels.forEach: the bounds, and the faces pushed in the order
\* right, left, top
RECURSIVE SceneLoop(_, _, _)
SceneLoop(acc, s, angle) ==
    IF s = <<>> THEN acc
    ELSE LET voxel == Head(s)
         IN  SceneLoop([bounds |-> ExtendBounds(acc.bounds, corners(voxel)),
                        faces |-> acc.faces \o
                                  <<generateVoxelFace(voxel, "right", angle),
                                    generateVoxelFace(voxel, "left", angle),
                                    generateVoxelFace(voxel, "top", angle)>>],
                       Tail(s), angle)

\* mutant: the empty scene has an empty viewBox
DefaultSceneNoArea ==
    [viewBox |-> <<FromInt(0), FromInt(0), FromInt(0), FromInt(0)>>, faces |-> <<>>]

\* '<svg ... viewBox="0 0 400 400"></svg>'
DefaultScene ==
    [viewBox |-> <<FromInt(0), FromInt(0), FromInt(DEFAULT_VIEW), FromInt(DEFAULT_VIEW)>>,
     faces |-> <<>>]

\* the viewBox <<x, y, width, height>> and the <path> elements of the <svg>
\* the scene of the faces and the bounds that the loop has collected
PaddedScene(done) ==
    LET b == done.bounds
    IN  [viewBox |-> <<Minus(b.minX, FromInt(PADDING)),
                       Minus(b.minY, FromInt(PADDING)),
                       Plus(Minus(b.maxX, b.minX), FromInt(PADDING * 2)),
                       Plus(Minus(b.maxY, b.minY), FromInt(PADDING * 2))>>,
         faces |-> done.faces]

generateSceneSVG(m, angle) ==
    IF MapSize(m) = 0 THEN DefaultScene
    ELSE LET start == [bounds |-> [minX |-> INFINITY, minY |-> INFINITY,
                                   maxX |-> Neg(INFINITY), maxY |-> Neg(INFINITY)],
                       faces |-> <<>>]
         IN  PaddedScene(SceneLoop(start, sortedVoxels(m), angle))

\* IsometricPreview: the scene of the rendered store
svgContent == generateSceneSVG(voxels, lightingAngle)

-----------------------------------------------------------------------------
(* useVoxelGrid.  Each function reads the closure of the last render       *)
(* (voxels, history, historyIndex, selectedColor, blockHeight) and maps    *)
(* the queued state p to the queued state after its set-state calls.       *)

\* mutant: the redo branch is kept when a snapshot is appended
saveToHistoryKeepBranch(p, newVoxels) ==
    LET newHistory == Append(history, [voxels |-> newVoxels, timestamp |-> now])
    IN  IF Len(newHistory) > MAX_HISTORY
        THEN [p EXCEPT !.history = Tail(newHistory)]
        ELSE [p EXCEPT !.history = newHistory, !.historyIndex = @ + 1]

\* mutant: the newest snapshot is dropped at the cap, and the index still advances
saveToHistoryDropsNewest(p, newVoxels) ==
    LET newHistory == Append(Slice0(history, historyIndex + 1),
                             [voxels |-> newVoxels, timestamp |-> now])
    IN  IF Len(newHistory) > MAX_HISTORY
        THEN [p EXCEPT !.history = SubSeq(newHistory, 1, MAX_HISTORY),
                       !.historyIndex = @ + 1]
        ELSE [p EXCEPT !.history = newHistory, !.historyIndex = @ + 1]

\* mutant: at the cap the oldest snapshot is evicted and the index still advances
saveToHistoryEvictAdvances(p, newVoxels) ==
    LET newHistory == Append(Slice0(history, historyIndex + 1),
                             [voxels |-> newVoxels, timestamp |-> now])
    IN  IF Len(newHistory) > MAX_HISTORY
        THEN [p EXCEPT !.history = Tail(newHistory), !.historyIndex = @ + 1]
        ELSE [p EXCEPT !.history = newHistory, !.historyIndex = @ + 1]

saveToHistory(p, newVoxels) ==
    LET newHistory == Append(Slice0(history, historyIndex + 1),
                             [voxels |-> newVoxels, timestamp |-> now])
    IN  IF Len(newHistory) > MAX_HISTORY
        THEN [p EXCEPT !.history = Tail(newHistory)]
        ELSE [p EXCEPT !.history = newHistory, !.historyIndex = @ + 1]

\* mutant: an existing voxel keeps its colour whatever colour is selected
addVoxelKeepsColor(p, x, y) ==
    LET key == getKey(x, y)
        existingVoxel == MapGet(voxels, key)
        newVoxels ==
            IF existingVoxel # Undefined
            THEN MapSet(voxels, key, [existingVoxel EXCEPT !.height = blockHeight])
            ELSE MapSet(voxels, key,
                        [x |-> x, y |-> y, height |-> blockHeight, color |-> selectedColor])
    IN  saveToHistory([p EXCEPT !.voxels = newVoxels], newVoxels)

\* mutant: the snapshot holds the store as it was before the edit
addVoxelSavesBefore(p, x, y) ==
    LET key == getKey(x, y)
        existingVoxel == MapGet(voxels, key)
        newVoxels ==
            IF existingVoxel # Undefined /\ existingVoxel.color = selectedColor
            THEN MapSet(voxels, key, [existingVoxel EXCEPT !.height = blockHeight])
            ELSE MapSet(voxels, key,
                        [x |-> x, y |-> y, height |-> blockHeight, color |-> selectedColor])
    IN  saveToHistory([p EXCEPT !.voxels = newVoxels], voxels)

addVoxel(p, x, y) ==
    LET key == getKey(x, y)
        existingVoxel == MapGet(voxels, key)
        newVoxels ==
            IF existingVoxel # Undefined /\ existingVoxel.color = selectedColor
            THEN MapSet(voxels, key, [existingVoxel EXCEPT !.height = blockHeight])
            ELSE MapSet(voxels, key,
                        [x |-> x, y |-> y, height |-> blockHeight, color |-> selectedColor])
    IN  saveToHistory([p EXCEPT !.voxels = newVoxels], newVoxels)

\* mutant: a snapshot is saved also when the cell holds no voxel
removeVoxelAlwaysSaves(p, x, y) ==
    LET key == getKey(x, y)
        newVoxels == MapDelete(voxels, key)
    IN  saveToHistory([p EXCEPT !.voxels = newVoxels], newVoxels)

removeVoxel(p, x, y) ==
    LET key == getKey(x, y)
    IN  IF MapHas(voxels, key)
        THEN LET newVoxels == MapDelete(voxels, key)
             IN  saveToHistory([p EXCEPT !.voxels = newVoxels], newVoxels)
        ELSE p

\* mutant: the new store is a copy of the store instead of an empty map
clearGridCopiesStore(p) == saveToHistory([p EXCEPT !.voxels = voxels], voxels)

clearGrid(p) == saveToHistory([p EXCEPT !.voxels = EmptyMap], EmptyMap)

\* history[newIndex] is undefined: reading its .voxels throws a TypeError
undoThrows == historyIndex > 0 /\ historyIndex - 1 >= Len(history)

\* mutant: the guard is historyIndex >= 0
undoFromZero(p) ==
    IF historyIndex >= 0
    THEN LET newIndex == historyIndex - 1
         IN  IF newIndex < 0 \/ newIndex >= Len(history)
             THEN [p EXCEPT !.historyIndex = newIndex]
             ELSE [p EXCEPT !.historyIndex = newIndex,
                            !.voxels = history[newIndex + 1].voxels]
    ELSE p

\* setHistoryIndex is called before history[newIndex].voxels is read
undo(p) ==
    IF historyIndex > 0
    THEN LET newIndex == historyIndex - 1
         IN  IF undoThrows
             THEN [p EXCEPT !.historyIndex = newIndex]
             ELSE [p EXCEPT !.historyIndex = newIndex,
                            !.voxels = history[newIndex + 1].voxels]
    ELSE p

redo(p) ==
    IF historyIndex < Len(history) - 1
    THEN LET newIndex == historyIndex + 1
         IN  [p EXCEPT !.historyIndex = newIndex,
                       !.voxels = history[newIndex + 1].voxels]
    ELSE p

hasVoxel(x, y) == MapHas(voxels, getKey(x, y))

getVoxel(x, y) == MapGet(voxels, getKey(x, y))

canUndo == historyIndex > 0

canRedo == historyIndex < Len(history) - 1

-----------------------------------------------------------------------------
(* Rendering of queued updates *)

Rendered == [voxels |-> voxels, history |-> history, historyIndex |-> historyIndex]

\* the updates are rendered before the next event (discrete event)
Commit(p) ==
    /\ voxels' = p.voxels
    /\ history' = p.history
    /\ historyIndex' = p.historyIndex
    /\ pending' = p

\* the updates wait for the scheduled render (continuous event)
Defer(p) ==
    /\ pending' = p
    /\ UNCHANGED <<voxels, history, historyIndex>>

\* whether the handler of the event calls saveToHistory
Saves(name, x, y) ==
    \/ name \in {"addVoxel", "clearGrid"}
    \/ name = "removeVoxel" /\ MapHas(voxels, getKey(x, y))

\* the number of snapshots beyond historyIndex, which a save drops
Beyond == IF Len(history) > historyIndex + 1 THEN Len(history) - (historyIndex + 1) ELSE 0

\* lastOp: the event, whether it saved a snapshot, how many snapshots the save
\* dropped beyond historyIndex, and the exception its handler ended with
TickError(name, x, y, error) ==
    /\ clock' = clock + 1
    /\ now' \in (IF clock + 1 < session.script THEN {now} ELSE session.times)
    /\ lastOp' = [op |-> name, x |-> x, y |-> y, error |-> error,
                  saved |-> Saves(name, x, y),
                  discarded |-> IF Saves(name, x, y) THEN Beyond ELSE 0]

Tick(name, x, y) == TickError(name, x, y, "none")

InitWith(s) ==
    /\ session = s
    /\ voxels = EmptyMap
    /\ history = <<>>
    /\ historyIndex = -1
    /\ pending = [voxels |-> EmptyMap, history |-> <<>>, historyIndex |-> -1]
    /\ selectedColor = TECH_COLORS[1]
    /\ blockHeight = 1
    /\ lightingAngle = 45
    /\ isDragging = FALSE
    /\ dragMode = NULL
    /\ clock = 0
    /\ now = START_TIME
    /\ lastOp = [op |-> "init", x |-> 0, y |-> 0, error |-> "none",
                 saved |-> FALSE, discarded |-> 0]
    /\ colorCall = NoCall
    /\ isExporting = FALSE
    /\ exportSuccess = FALSE
    /\ successTimers = 0
    /\ selectedFormat = "svg"
    /\ exportJob = NoJob
    /\ downloads = <<>>

InitSession(script, budget) ==
    \E build \in MathBuilds :
        InitWith([script |-> script, budget |-> budget, times |-> TimeArgs,
                  build |-> build])

Init == InitSession(0, MaxEvents)

\* ExportButton: the values handleExport computes and downloads

\* side of the canvas of an exported image, in pixels
EXPORT_SIZE == 3000

\* the document with its white space collapsed: the elements are unchanged
optimizeSVG(svg) == [viewBox |-> svg.viewBox, faces |-> svg.faces, collapsed |-> TRUE]

\* the document with metadata added to it
addSVGMetadata(svg) == [metadata |-> TRUE, document |-> svg]

\* the file name carries the time of the call, cut to whole seconds by
\* slice(0, -5), and the format
Filename(timestamp, format) ==
    [timestamp |-> timestamp \div MS_PER_SECOND, extension |-> format]

\* the download of the document itself
downloadSVG(svgString, filename) ==
    [filename |-> filename,
     href |-> [mimeType |-> "image/svg+xml", image |-> svgString]]

\* what the promise settles with, ctx being the value of
\* canvas.getContext('2d'): without a context it rejects at once; with one it
\* resolves, when the image has loaded, with the data URL of the document
\* drawn on a square canvas, on white for JPG; quality in thousandths
convertSVGToImage(svgString, format, ctx) ==
    IF ctx = NULL
    THEN [settled |-> "rejected", reason |-> "Could not get canvas context"]
    ELSE [settled |-> "resolved",
          value |-> [mimeType |-> IF format = "png" THEN "image/png" ELSE "image/jpeg",
                     quality |-> IF format = "jpg" THEN 950 ELSE 0,
                     width |-> EXPORT_SIZE,
                     height |-> EXPORT_SIZE,
                     background |-> IF format = "jpg" THEN "#FFFFFF" ELSE "transparent",
                     image |-> svgString]]

downloadFile(dataUrl, filename) == [filename |-> filename, href |-> dataUrl]

\* a call of handleExport whose conversion was rejected when it was started
\* is suspended: its continuation is a microtask, which the browser runs
\* before it delivers another event or runs a timer
ContinuationQueued ==
    /\ exportJob # NoJob
    /\ convertSVGToImage(exportJob.finalSVG, exportJob.format, exportJob.ctx).settled
           = "rejected"

\* an event of the user's choice may be handled
Free == clock >= session.script /\ clock < session.budget /\ ~ContinuationQueued

\* the scheduled render of the updates queued by continuous events
Render ==
    /\ pending # Rendered
    /\ Commit(pending)
    /\ UNCHANGED <<selectedColor, blockHeight, isDragging, dragMode, clock, now, lastOp, session, lightingAngle, colorCall, exportVars>>

-----------------------------------------------------------------------------
(* Grid: the handlers bound to each cell button and to the window *)

\* onClick of a cell; remove is event.shiftKey || event.button === 2
HandleCellClick(x, y, remove) ==
    /\ Commit(IF remove THEN removeVoxel(pending, x, y) ELSE addVoxel(pending, x, y))
    /\ dragMode' = IF remove THEN "remove" ELSE "add"
    /\ Tick(IF remove THEN "removeVoxel" ELSE "addVoxel", x, y)
    /\ UNCHANGED <<selectedColor, blockHeight, isDragging, session, lightingAngle, colorCall, exportVars>>

\* onMouseDown of a cell
HandleMouseDown(x, y, remove) ==
    /\ isDragging' = TRUE
    /\ Commit(IF remove THEN removeVoxel(pending, x, y) ELSE addVoxel(pending, x, y))
    /\ dragMode' = IF remove THEN "remove" ELSE "add"
    /\ Tick(IF remove THEN "removeVoxel" ELSE "addVoxel", x, y)
    /\ UNCHANGED <<selectedColor, blockHeight, session, lightingAngle, colorCall, exportVars>>

\* mutant: paints whenever a drag mode is set, dragging or not
HandleMouseEnterAnyMode(x, y) ==
    /\ IF dragMode # NULL
       THEN IF dragMode = "add"
            THEN Defer(addVoxel(pending, x, y)) /\ Tick("addVoxel", x, y)
            ELSE Defer(removeVoxel(pending, x, y)) /\ Tick("removeVoxel", x, y)
       ELSE Defer(pending) /\ Tick("hover", x, y)
    /\ UNCHANGED <<selectedColor, blockHeight, isDragging, dragMode, session, lightingAngle, colorCall, exportVars>>

\* onMouseEnter of a cell: paints while a drag is in progress
HandleMouseEnter(x, y) ==
    /\ IF isDragging /\ dragMode # NULL
       THEN IF dragMode = "add"
            THEN Defer(addVoxel(pending, x, y)) /\ Tick("addVoxel", x, y)
            ELSE Defer(removeVoxel(pending, x, y)) /\ Tick("removeVoxel", x, y)
       ELSE Defer(pending) /\ Tick("hover", x, y)
    /\ UNCHANGED <<selectedColor, blockHeight, isDragging, dragMode, session, lightingAngle, colorCall, exportVars>>

\* mouseup on the window
HandleMouseUp ==
    /\ isDragging' = FALSE
    /\ dragMode' = NULL
    /\ Commit(pending)
    /\ Tick("mouseup", 0, 0)
    /\ UNCHANGED <<selectedColor, blockHeight, session, lightingAngle, colorCall, exportVars>>

\* onTouchStart of a cell
HandleTouchStart(x, y) ==
    /\ isDragging' = TRUE
    /\ Commit(addVoxel(pending, x, y))
    /\ dragMode' = "add"
    /\ Tick("addVoxel", x, y)
    /\ UNCHANGED <<selectedColor, blockHeight, session, lightingAngle, colorCall, exportVars>>

\* onTouchMove; (x, y) is the cell under the touch point
HandleTouchMove(x, y) ==
    /\ IF ~isDragging \/ dragMode = NULL
       THEN Defer(pending) /\ Tick("touchmove", x, y)
       ELSE IF dragMode = "add"
            THEN Defer(addVoxel(pending, x, y)) /\ Tick("addVoxel", x, y)
            ELSE Defer(removeVoxel(pending, x, y)) /\ Tick("removeVoxel", x, y)
    /\ UNCHANGED <<selectedColor, blockHeight, isDragging, dragMode, session, lightingAngle, colorCall, exportVars>>

\* touchend on the window
HandleTouchEnd ==
    /\ isDragging' = FALSE
    /\ dragMode' = NULL
    /\ Commit(pending)
    /\ Tick("touchend", 0, 0)
    /\ UNCHANGED <<selectedColor, blockHeight, session, lightingAngle, colorCall, exportVars>>

\* onContextMenu of a cell
HandleContextMenu(x, y) ==
    /\ Commit(removeVoxel(pending, x, y))
    /\ Tick("removeVoxel", x, y)
    /\ UNCHANGED <<selectedColor, blockHeight, isDragging, dragMode, session, lightingAngle, colorCall, exportVars>>

\* onKeyDown of a cell with Enter or space; remove is event.shiftKey
HandleCellKeyDown(x, y, remove) ==
    /\ Commit(IF remove THEN removeVoxel(pending, x, y) ELSE addVoxel(pending, x, y))
    /\ Tick(IF remove THEN "removeVoxel" ELSE "addVoxel", x, y)
    /\ UNCHANGED <<selectedColor, blockHeight, isDragging, dragMode, session, lightingAngle, colorCall, exportVars>>

-----------------------------------------------------------------------------
(* App: keyboard shortcuts on the window *)

\* Ctrl+Z
KeyUndo ==
    /\ Commit(undo(pending))
    /\ TickError("undo", 0, 0, IF undoThrows THEN "TypeError" ELSE "none")
    /\ UNCHANGED <<selectedColor, blockHeight, isDragging, dragMode, session, lightingAngle, colorCall, exportVars>>

\* Ctrl+Y or Ctrl+Shift+Z
KeyRedo ==
    /\ Commit(redo(pending))
    /\ Tick("redo", 0, 0)
    /\ UNCHANGED <<selectedColor, blockHeight, isDragging, dragMode, session, lightingAngle, colorCall, exportVars>>

\* mutant: the H key changes the block height without clamping it
KeyHeightNoClamp(shift) ==
    /\ blockHeight' = IF shift THEN blockHeight - 1 ELSE blockHeight + 1
    /\ Commit(pending)
    /\ Tick("height", 0, 0)
    /\ UNCHANGED <<selectedColor, isDragging, dragMode, session, lightingAngle, colorCall, exportVars>>

\* H raises the block height, Shift+H lowers it
KeyHeight(shift) ==
    /\ blockHeight' = IF shift
                      THEN (IF blockHeight - 1 < MIN_HEIGHT THEN MIN_HEIGHT ELSE blockHeight - 1)
                      ELSE (IF blockHeight + 1 > MAX_HEIGHT THEN MAX_HEIGHT ELSE blockHeight + 1)
    /\ Commit(pending)
    /\ Tick("height", 0, 0)
    /\ UNCHANGED <<selectedColor, isDragging, dragMode, session, lightingAngle, colorCall, exportVars>>

\* L turns the light by 15 degrees, Shift+L turns it back
KeyLighting(shift) ==
    /\ lightingAngle' = IF shift
                        THEN Remainder(lightingAngle - LIGHT_STEP + FULL_TURN, FULL_TURN)
                        ELSE Remainder(lightingAngle + LIGHT_STEP, FULL_TURN)
    /\ Commit(pending)
    /\ Tick("lighting", 0, 0)
    /\ UNCHANGED <<selectedColor, blockHeight, isDragging, dragMode, session, colorCall, exportVars>>

\* the keys 1 to 6 select a preset colour
KeyColor(num) ==
    /\ num >= 1 /\ num <= 6
    /\ selectedColor' = TECH_COLORS[num]
    /\ Commit(pending)
    /\ Tick("color", 0, 0)
    /\ UNCHANGED <<blockHeight, isDragging, dragMode, session, lightingAngle, colorCall, exportVars>>

-----------------------------------------------------------------------------
(* Controls and ColorPicker *)

\* the Undo button is disabled unless canUndo
ClickUndo ==
    /\ canUndo
    /\ Commit(undo(pending))
    /\ TickError("undo", 0, 0, IF undoThrows THEN "TypeError" ELSE "none")
    /\ UNCHANGED <<selectedColor, blockHeight, isDragging, dragMode, session, lightingAngle, colorCall, exportVars>>

\* the Redo button is disabled unless canRedo
ClickRedo ==
    /\ canRedo
    /\ Commit(redo(pending))
    /\ Tick("redo", 0, 0)
    /\ UNCHANGED <<selectedColor, blockHeight, isDragging, dragMode, session, lightingAngle, colorCall, exportVars>>

ClickClear ==
    /\ Commit(clearGrid(pending))
    /\ Tick("clearGrid", 0, 0)
    /\ UNCHANGED <<selectedColor, blockHeight, isDragging, dragMode, session, lightingAngle, colorCall, exportVars>>

\* the block-height range input
HandleHeightChange(h) ==
    /\ blockHeight' = h
    /\ Commit(pending)
    /\ Tick("height", 0, 0)
    /\ UNCHANGED <<selectedColor, isDragging, dragMode, session, lightingAngle, colorCall, exportVars>>

\* the lighting-angle range input
HandleAngleChange(a) ==
    /\ lightingAngle' = a
    /\ Commit(pending)
    /\ Tick("lighting", 0, 0)
    /\ UNCHANGED <<selectedColor, blockHeight, isDragging, dragMode, session, colorCall, exportVars>>

\* a palette button, or the custom colour input
HandleColorSelect(c) ==
    /\ selectedColor' = c
    /\ Commit(pending)
    /\ Tick("color", 0, 0)
    /\ UNCHANGED <<blockHeight, isDragging, dragMode, session, lightingAngle, colorCall, exportVars>>

-----------------------------------------------------------------------------
(* ExportButton: the download of the scene as an SVG, PNG or JPG file.  The *)
(* component receives voxels and lightingAngle of the last render as props. *)

hasVoxels == MapSize(voxels) > 0

\* the rest of handleExport, after 'const finalSVG = addSVGMetadata(...)': an
\* SVG is downloaded at once; a conversion suspends the call at its await,
\* also when its promise is rejected already
ExportAs(format, finalSVG, ctx) ==
    IF format = "svg"
    THEN /\ downloads' = Append(downloads, downloadSVG(finalSVG, Filename(now, "svg")))
         /\ exportSuccess' = TRUE
         /\ successTimers' = successTimers + 1
         /\ isExporting' = FALSE
         /\ UNCHANGED <<selectedFormat, exportJob>>
    ELSE /\ isExporting' = TRUE
         /\ exportJob' = [format |-> format, finalSVG |-> finalSVG, ctx |-> ctx,
                          timestamp |-> now, voxels |-> voxels,
                          lightingAngle |-> lightingAngle]
         /\ UNCHANGED <<exportSuccess, successTimers, selectedFormat, downloads>>

\* handleExport up to its await, or to its end where it has none: the
\* document is generated from the props of the closure before the conversion
\* starts
HandleExport(format, ctx) ==
    /\ IF MapSize(voxels) = 0
       THEN UNCHANGED exportVars
       ELSE ExportAs(format,
                     addSVGMetadata(optimizeSVG(generateSceneSVG(voxels, lightingAngle))),
                     ctx)
    /\ Commit(pending)
    /\ Tick("export", 0, 0)
    /\ UNCHANGED <<selectedColor, blockHeight, isDragging, dragMode, session, lightingAngle, colorCall>>

\* the rest of handleExport after the await of a rejected promise, catch and
\* finally: a microtask, it runs after the render that follows the call and
\* before any other event; the error is reported and nothing is downloaded
HandleExportCatch ==
    /\ ContinuationQueued
    /\ isExporting' = FALSE
    /\ exportJob' = NoJob
    /\ lastOp' = [op |-> "error", x |-> 0, y |-> 0,
                  error |-> convertSVGToImage(exportJob.finalSVG, exportJob.format,
                                              exportJob.ctx).reason,
                  saved |-> FALSE, discarded |-> 0]
    /\ UNCHANGED <<voxels, history, historyIndex, pending, selectedColor, blockHeight,
                   isDragging, dragMode, clock, now, session, lightingAngle,
                   colorCall, exportSuccess, successTimers, selectedFormat, downloads>>

\* img.onload of a conversion that reads the props of the current render
ImageLoadedReadsStore ==
    /\ exportJob # NoJob
    /\ ~ContinuationQueued
    /\ downloads' = Append(downloads,
           downloadFile(convertSVGToImage(
                            addSVGMetadata(optimizeSVG(generateSceneSVG(voxels, lightingAngle))),
                            exportJob.format, exportJob.ctx).value,
                        Filename(exportJob.timestamp, exportJob.format)))
    /\ exportSuccess' = TRUE
    /\ successTimers' = successTimers + 1
    /\ isExporting' = FALSE
    /\ exportJob' = NoJob
    /\ lastOp' = [op |-> "load", x |-> 0, y |-> 0, error |-> "none",
                  saved |-> FALSE, discarded |-> 0]
    /\ UNCHANGED <<voxels, history, historyIndex, pending, selectedColor, blockHeight,
                   isDragging, dragMode, clock, now, session, lightingAngle,
                   colorCall, selectedFormat>>

\* img.onload: the promise resolves and handleExport resumes after its await
ImageLoaded ==
    /\ exportJob # NoJob
    /\ ~ContinuationQueued
    /\ downloads' = Append(downloads,
           downloadFile(convertSVGToImage(exportJob.finalSVG, exportJob.format,
                                          exportJob.ctx).value,
                        Filename(exportJob.timestamp, exportJob.format)))
    /\ exportSuccess' = TRUE
    /\ successTimers' = successTimers + 1
    /\ isExporting' = FALSE
    /\ exportJob' = NoJob
    /\ lastOp' = [op |-> "load", x |-> 0, y |-> 0, error |-> "none",
                  saved |-> FALSE, discarded |-> 0]
    /\ UNCHANGED <<voxels, history, historyIndex, pending, selectedColor, blockHeight,
                   isDragging, dragMode, clock, now, session, lightingAngle,
                   colorCall, selectedFormat>>

\* img.onerror: the promise rejects; handleExport reports the error
ImageError ==
    /\ exportJob # NoJob
    /\ ~ContinuationQueued
    /\ isExporting' = FALSE
    /\ exportJob' = NoJob
    /\ lastOp' = [op |-> "error", x |-> 0, y |-> 0, error |-> "Failed to load SVG image",
                  saved |-> FALSE, discarded |-> 0]
    /\ UNCHANGED <<voxels, history, historyIndex, pending, selectedColor, blockHeight,
                   isDragging, dragMode, clock, now, session, lightingAngle,
                   colorCall, exportSuccess, successTimers, selectedFormat, downloads>>

\* the callback of setTimeout(() => setExportSuccess(false), 2000)
SuccessTimeout ==
    /\ successTimers > 0
    /\ ~ContinuationQueued
    /\ successTimers' = successTimers - 1
    /\ exportSuccess' = FALSE
    /\ UNCHANGED <<voxels, history, historyIndex, pending, selectedColor, blockHeight,
                   isDragging, dragMode, clock, now, lastOp, session, lightingAngle,
                   colorCall, isExporting, selectedFormat, exportJob, downloads>>

\* onClick of a format button
HandleFormatSelect(format) ==
    /\ selectedFormat' = format
    /\ Commit(pending)
    /\ Tick("format", 0, 0)
    /\ UNCHANGED <<selectedColor, blockHeight, isDragging, dragMode, session, lightingAngle,
                   colorCall, isExporting, exportSuccess, successTimers, exportJob, downloads>>

-----------------------------------------------------------------------------

(* The event bindings *)

CellClick ==
    Free /\ \E c \in CellInputs, remove \in BOOLEAN : HandleCellClick(c[1], c[2], remove)

MouseDown ==
    Free /\ \E c \in CellInputs, remove \in BOOLEAN : HandleMouseDown(c[1], c[2], remove)

MouseEnter == Free /\ \E c \in CellInputs : HandleMouseEnter(c[1], c[2])

MouseUp == Free /\ HandleMouseUp

TouchStart == Free /\ \E c \in CellInputs : HandleTouchStart(c[1], c[2])

TouchMove == Free /\ \E c \in CellInputs : HandleTouchMove(c[1], c[2])

TouchEnd == Free /\ HandleTouchEnd

ContextMenu == Free /\ \E c \in CellInputs : HandleContextMenu(c[1], c[2])

CellKeyDown ==
    Free /\ \E c \in CellInputs, remove \in BOOLEAN : HandleCellKeyDown(c[1], c[2], remove)

CtrlZ == Free /\ KeyUndo

CtrlY == Free /\ KeyRedo

KeyH == Free /\ \E shift \in BOOLEAN : KeyHeight(shift)

KeyDigit == Free /\ \E num \in ColorKeyInputs : KeyColor(num)

KeyL == Free /\ \E shift \in BOOLEAN : KeyLighting(shift)

UndoButton == Free /\ ClickUndo

RedoButton == Free /\ ClickRedo

ClearButton == Free /\ ClickClear

HeightSlider == Free /\ \E h \in HeightSliderInputs : HandleHeightChange(h)

LightingSlider == Free /\ \E a \in AngleSliderInputs : HandleAngleChange(a)

PaletteButton == Free /\ \E num \in ColorKeyInputs : HandleColorSelect(TECH_COLORS[num])

ColorInput == Free /\ \E c \in CustomColorInputs : HandleColorSelect(c)

Next ==
    \/ CellClick
    \/ MouseDown
    \/ MouseEnter
    \/ MouseUp
    \/ TouchStart
    \/ TouchMove
    \/ TouchEnd
    \/ ContextMenu
    \/ CellKeyDown
    \/ CtrlZ
    \/ CtrlY
    \/ KeyH
    \/ KeyDigit
    \/ UndoButton
    \/ RedoButton
    \/ ClearButton
    \/ HeightSlider
    \/ PaletteButton
    \/ ColorInput
    \/ Render

Spec == Init /\ [][Next]_vars

-----------------------------------------------------------------------------
(* Long sessions.  The script clicks a fresh cell of the grid at each      *)
(* event, so that every edit of the script leaves a different store.       *)

ScriptCell(n) == <<n % GRID_SIZE, (n \div GRID_SIZE) % GRID_SIZE>>

\* the next click of the script
ScriptClick ==
    /\ clock < session.script
    /\ HandleCellClick(ScriptCell(clock)[1], ScriptCell(clock)[2], FALSE)

\* Prefill clicks of the script, then at most MaxTail events of any kind
InitLong == InitSession(Prefill, Prefill + MaxTail)

NextLong == ScriptClick \/ Next

SpecLong == InitLong /\ [][NextLong]_vars

\* Ctrl+Z, once the script has been left
ScriptUndo == clock < session.budget /\ KeyUndo

\* clicks of the script, then Ctrl+Z again and again
InitUndoAll == InitSession(MaxEdits, 2 * MaxEdits)

NextUndoAll ==
    \/ lastOp.op # "undo" /\ ScriptClick
    \/ ScriptUndo

SpecUndoAll == InitUndoAll /\ [][NextUndoAll]_vars

-----------------------------------------------------------------------------
(* The functions useVoxelGrid returns, called by a component with any      *)
(* arguments, each call rendered before the next.                          *)

CallAddVoxel ==
    /\ Free
    /\ \E x \in CoordinateArgs :
          /\ Commit(addVoxel(pending, x, 0))
          /\ Tick("addVoxel", x, 0)
    /\ UNCHANGED <<selectedColor, blockHeight, isDragging, dragMode, session, lightingAngle, colorCall, exportVars>>

CallRemoveVoxel ==
    /\ Free
    /\ \E x \in CoordinateArgs :
          /\ Commit(removeVoxel(pending, x, 0))
          /\ Tick("removeVoxel", x, 0)
    /\ UNCHANGED <<selectedColor, blockHeight, isDragging, dragMode, session, lightingAngle, colorCall, exportVars>>

CallClearGrid == Free /\ ClickClear

CallUndo == Free /\ KeyUndo

CallRedo == Free /\ KeyRedo

CallSetBlockHeight == Free /\ \E h \in HeightArgs : HandleHeightChange(h)

CallSetSelectedColor == Free /\ \E c \in ColorArgs : HandleColorSelect(c)

\* setLightingAngle is the setter of useState: it stores any number
CallSetLightingAngle == Free /\ \E a \in AngleArgs : HandleAngleChange(a)

InitHook == InitSession(0, MaxCalls)

NextHook ==
    \/ CallAddVoxel
    \/ CallRemoveVoxel
    \/ CallClearGrid
    \/ CallUndo
    \/ CallRedo
    \/ CallSetBlockHeight
    \/ CallSetSelectedColor
    \/ CallSetLightingAngle

SpecHook == InitHook /\ [][NextHook]_vars

-----------------------------------------------------------------------------
(* Sessions that build a scene: clicks on cells across the grid, the block  *)
(* height, the colour and the lighting angle, the preview rendering the     *)
(* store at each render.                                                    *)

SceneClick == Free /\ \E c \in SceneCells : HandleCellClick(c[1], c[2], FALSE)

\* the events of the session are handled within one millisecond
InitScene ==
    \E build \in MathBuilds :
        InitWith([script |-> 0, budget |-> MaxSceneEvents, times |-> {START_TIME},
                  build |-> build])

NextScene ==
    \/ SceneClick
    \/ ClearButton
    \/ HeightSlider
    \/ KeyDigit
    \/ KeyL
    \/ LightingSlider

SpecScene == InitScene /\ [][NextScene]_vars

-----------------------------------------------------------------------------
(* Calls of adjustBrightness with a six-digit colour and an integer amount *)

CallAdjustBrightness ==
    /\ \E r \in ChannelArgs, g \in ChannelArgs, b \in ChannelArgs, amount \in AmountArgs :
          LET hex == "#" \o r \o g \o b
          IN  colorCall' = [hex |-> hex, amount |-> amount,
                            result |-> adjustBrightness(hex, Amount(amount))]
    /\ UNCHANGED <<voxels, history, historyIndex, pending, selectedColor, blockHeight,
                   isDragging, dragMode, clock, now, lastOp, session, lightingAngle, exportVars>>

InitColors == InitSession(0, 0)

NextColors == CallAdjustBrightness

SpecColors == InitColors /\ [][NextColors]_vars

-----------------------------------------------------------------------------
(* Sessions that export the scene while the store is edited *)

FormatButton == Free /\ \E format \in ExportFormats : HandleFormatSelect(format)

\* what canvas.getContext('2d') returns: a context, or null where the
\* browser has none to give
CanvasContexts == {"CanvasRenderingContext2D", NULL}

\* the download button is disabled without voxels and during an export
DownloadButton ==
    /\ Free
    /\ hasVoxels
    /\ ~isExporting
    /\ \E ctx \in CanvasContexts : HandleExport(selectedFormat, ctx)

InitExport == InitSession(0, MaxExportEvents)

NextExport ==
    \/ CellClick
    \/ CtrlZ
    \/ CtrlY
    \/ ClearButton
    \/ KeyL
    \/ FormatButton
    \/ DownloadButton
    \/ ImageLoaded
    \/ ImageError
    \/ HandleExportCatch
    \/ SuccessTimeout

SpecExport == InitExport /\ [][NextExport]_vars

-----------------------------------------------------------------------------
(* Sessions that end with a click of the primary button on a cell: after    *)
(* session.budget events of the user's choice the browser delivers          *)
(* mousedown, mouseup and click to the cell session.cell, and then the      *)
(* pointer moves over a cell.                                               *)

GestureMouseDown ==
    /\ clock = session.budget
    /\ HandleMouseDown(session.cell[1], session.cell[2], FALSE)

GestureMouseUp == clock = session.budget + 1 /\ HandleMouseUp

GestureClick ==
    /\ clock = session.budget + 2
    /\ HandleCellClick(session.cell[1], session.cell[2], FALSE)

PointerMove ==
    /\ clock = session.budget + 3
    /\ \E c \in CellInputs : HandleMouseEnter(c[1], c[2])

InitClick ==
    \E n \in 0..MaxClickPrefix, c \in CellInputs, build \in MathBuilds :
        InitWith([script |-> 0, budget |-> n, times |-> TimeArgs, cell |-> c,
                  build |-> build])

NextClick ==
    \/ MouseDown
    \/ MouseEnter
    \/ MouseUp
    \/ TouchStart
    \/ TouchMove
    \/ TouchEnd
    \/ CellClick
    \/ CtrlZ
    \/ KeyDigit
    \/ Render
    \/ GestureMouseDown
    \/ GestureMouseUp
    \/ GestureClick
    \/ PointerMove

SpecClick == InitClick /\ [][NextClick]_vars

-----------------------------------------------------------------------------
(* Claims *)

\* a step that handles an event
EventStep == clock' = clock + 1

\* a step whose handler appends a snapshot
SaveStep == EventStep /\ lastOp'.saved

\* no update is queued that has not been rendered
Quiet == pending = Rendered

\* C1: in every reachable state the history pointer satisfies
\* -1 <= historyIndex < history.length.
C1_IndexInRange == -1 <= historyIndex /\ historyIndex < Len(history)

\* the snapshots at positions 0..historyIndex, which a save keeps
KeptBySave == [i \in 1..(Len(history) - Beyond) |-> history[i]]

\* C2: the history never holds more than 50 snapshots.  A save whose kept
\* snapshots number 50 evicts the one at position 0, keeps the others in
\* their order before the new snapshot and leaves the index as it was; any
\* other save advances the index by exactly 1.
C2_SaveStep ==
    /\ Len(history') <= MAX_HISTORY
    /\ Len(pending'.history) <= MAX_HISTORY
    /\ SaveStep =>
          LET kept == KeptBySave
              new  == pending'.history
          IN  IF Len(kept) + 1 > MAX_HISTORY
              THEN /\ Len(new) = MAX_HISTORY
                   /\ \A i \in 1..(MAX_HISTORY - 1) : new[i] = kept[i + 1]
                   /\ new[MAX_HISTORY].voxels = pending'.voxels
                   /\ pending'.historyIndex = pending.historyIndex
              ELSE /\ Len(new) = Len(kept) + 1
                   /\ \A i \in 1..Len(kept) : new[i] = kept[i]
                   /\ new[Len(new)].voxels = pending'.voxels
                   /\ pending'.historyIndex = pending.historyIndex + 1

C2_HistoryCap == [][C2_SaveStep]_vars

\* C2 witness: a save at the cap has evicted the snapshot of the first edit
C2_Witness ==
    /\ lastOp.saved
    /\ Len(history) = MAX_HISTORY
    /\ historyIndex = MAX_HISTORY - 1
    /\ MapSize(history[1].voxels) > 1

\* C3: once an edit that saved a snapshot is rendered, the snapshots that lay
\* beyond the index are gone: the new snapshot is the last one and holds the
\* store, canRedo is false and redo changes nothing.
C3_BranchDiscard ==
    (lastOp.saved /\ Quiet) =>
        /\ Len(history) >= 1
        /\ history[Len(history)].voxels = voxels
        /\ ~canRedo
        /\ redo(pending) = pending

\* C3 witness: an edit made after an undo has been rendered
C3_Witness == lastOp.saved /\ lastOp.discarded >= 1 /\ Quiet /\ ~canRedo

\* an undo or redo event
UndoStep == EventStep /\ lastOp'.op = "undo"

RedoStep == EventStep /\ lastOp'.op = "redo"

\* C4: with index > 0 undo lowers the index by 1 and sets the store to
\* snapshots[index - 1]; with index < length - 1 redo raises the index by 1
\* and sets the store to snapshots[index + 1]; neither changes the
\* snapshots, and a redo right after an undo (an undo right after a redo)
\* brings the store and the index back.
C4_UndoRedoStep ==
    /\ (UndoStep /\ historyIndex > 0) =>
          /\ lastOp'.error = "none"
          /\ historyIndex' = historyIndex - 1
          /\ historyIndex <= Len(history)
          /\ voxels' = history[historyIndex].voxels
          /\ pending'.history = pending.history
          /\ (redo(pending)').historyIndex = historyIndex
          /\ (redo(pending)').voxels = voxels
    /\ (RedoStep /\ historyIndex < Len(history) - 1) =>
          /\ historyIndex' = historyIndex + 1
          /\ voxels' = history[historyIndex + 2].voxels
          /\ pending'.history = pending.history
          /\ (undo(pending)').historyIndex = historyIndex
          /\ (undo(pending)').voxels = voxels

C4_UndoRedo == [][C4_UndoRedoStep]_vars

\* C5: undo while canUndo is false and redo while canRedo is false raise no
\* error and queue no update: store, snapshots and index stay as they are.
C5_NoOpStep ==
    /\ (UndoStep /\ ~canUndo) => (pending' = pending /\ lastOp'.error = "none")
    /\ (RedoStep /\ ~canRedo) => (pending' = pending /\ lastOp'.error = "none")

C5_NoOps == [][C5_NoOpStep]_vars

\* C5 witness: Ctrl+Z was pressed with one snapshot in the history
C5_Witness ==
    /\ lastOp.op = "undo"
    /\ historyIndex = 0
    /\ Len(history) = 1
    /\ voxels # EmptyMap
    /\ Quiet

\* the store after the first m clicks of the script
ScriptStore(m) ==
    [k \in {getKey(ScriptCell(n)[1], ScriptCell(n)[2]) : n \in 0..(m - 1)} |->
        LET n == CHOOSE n \in 0..(m - 1) : getKey(ScriptCell(n)[1], ScriptCell(n)[2]) = k
        IN  [x |-> ScriptCell(n)[1], y |-> ScriptCell(n)[2],
             height |-> 1, color |-> TECH_COLORS[1]]]

\* SpecUndoAll: the number of edits made (edit n of the script adds voxel n
\* and saves the store of n voxels), and of Ctrl+Z presses after them
EditsMade == IF Len(history) = 0 THEN 0 ELSE MapSize(history[Len(history)].voxels)

UndosMade == clock - EditsMade

\* C6: after N > 50 sequential edits the history holds at most 50 snapshots
\* and canUndo is true; k undos lead to the store as it was after edit
\* N - k, down to the oldest retained snapshot, the store after edit N - 49,
\* where undo becomes a no-op; no snapshot of an earlier edit is retained.
C6_HistoryBound ==
    EditsMade > MAX_HISTORY =>
        LET N == EditsMade
            k == UndosMade
            back == IF k < MAX_HISTORY - 1 THEN k ELSE MAX_HISTORY - 1
        IN  /\ Len(history) <= MAX_HISTORY
            /\ k = 0 => canUndo
            /\ historyIndex = MAX_HISTORY - 1 - back
            /\ MapContent(voxels) = ScriptStore(N - back)
            /\ MapContent(history[1].voxels) = ScriptStore(N - (MAX_HISTORY - 1))
            /\ \A i \in 1..Len(history) :
                   MapSize(history[i].voxels) >= N - (MAX_HISTORY - 1)
            /\ k >= MAX_HISTORY - 1 => (~canUndo /\ undo(pending) = pending)

\* C6 witness: after more than 50 edits, undo was pressed past the oldest snapshot
C6_Witness ==
    /\ EditsMade > MAX_HISTORY
    /\ UndosMade > MAX_HISTORY - 1
    /\ lastOp.op = "undo"
    /\ historyIndex = 0

\* an event that computes a new store or a new index
MutationStep ==
    EventStep /\ lastOp'.op \in {"addVoxel", "removeVoxel", "clearGrid", "undo", "redo"}

\* C7: every edit event is computed from the store and history the previous
\* event left, which has completed its updates; no voxel edit is lost and
\* the index never advances without a matching snapshot.
C7_MutationStep ==
    MutationStep =>
        /\ Rendered = pending
        /\ lastOp'.op = "addVoxel" =>
              \A k \in MapKeys(pending.voxels) \ {getKey(lastOp'.x, lastOp'.y)} :
                  MapGet(pending'.voxels, k) = MapGet(pending.voxels, k)
        /\ pending'.historyIndex < Len(pending'.history)

C7_NoInterleaving == [][C7_MutationStep]_vars

\* C8: with index >= 0 the snapshot at the index holds the content of the
\* store; with index = -1 the store is empty.
C8_StoreIsSnapshot ==
    /\ historyIndex >= 0 =>
          /\ historyIndex < Len(history)
          /\ MapContent(history[historyIndex + 1].voxels) = MapContent(voxels)
    /\ historyIndex = -1 => voxels = EmptyMap

AddStep == EventStep /\ lastOp'.op = "addVoxel"

\* the voxel an add at (x, y) is to leave in the store
Selected(x, y) == [x |-> x, y |-> y, height |-> blockHeight, color |-> selectedColor]

\* C9 (the update): an add at (x, y) queues a store that holds at (x, y) the
\* voxel with the selected height and colour and, at every other cell, what
\* the store held.
C9_AddStep ==
    AddStep =>
        LET key == getKey(lastOp'.x, lastOp'.y)
            new == pending'.voxels
        IN  /\ MapHas(new, key)
            /\ MapGet(new, key) = Selected(lastOp'.x, lastOp'.y)
            /\ \A k \in (MapKeys(voxels) \cup MapKeys(new)) \ {key} :
                   MapGet(new, k) = MapGet(voxels, k)

\* C9 (the query): once the add is rendered, hasVoxel is true and getVoxel
\* returns the voxel with the selected height and colour.
C9_Rendered ==
    (lastOp.op = "addVoxel" /\ Quiet) =>
        /\ hasVoxel(lastOp.x, lastOp.y)
        /\ getVoxel(lastOp.x, lastOp.y) = Selected(lastOp.x, lastOp.y)

\* C9: adding a voxel at (x, y) and then calling getVoxel(x, y) returns x, y,
\* the selected height and the selected colour, whatever the cell held; every
\* other cell is unchanged.
C9_Upsert == []C9_Rendered /\ [][C9_AddStep]_vars

\* C9 witness: a cell that held a voxel of another colour and another height
\* was added again
C9_Witness ==
    /\ lastOp.op = "addVoxel"
    /\ Quiet
    /\ historyIndex >= 1
    /\ historyIndex < Len(history)
    /\ LET before == MapGet(history[historyIndex].voxels, getKey(lastOp.x, lastOp.y))
       IN  /\ before # Undefined
           /\ before.color # selectedColor
           /\ before.height # blockHeight
    /\ getVoxel(lastOp.x, lastOp.y) = Selected(lastOp.x, lastOp.y)

\* the colour strings of the model that have the form #RRGGBB
WellFormedColors ==
    {TECH_COLORS[i] : i \in 1..Len(TECH_COLORS)} \cup CustomColorInputs

\* the error the claim gives an upsert of (x, y) with the selected height and colour
ExpectedError(x, y) ==
    IF x \notin 0..(GRID_SIZE - 1) \/ y \notin 0..(GRID_SIZE - 1) THEN "InvalidCoordinate"
    ELSE IF blockHeight \notin MIN_HEIGHT..MAX_HEIGHT THEN "InvalidHeight"
    ELSE IF selectedColor \notin WellFormedColors THEN "InvalidColor"
    ELSE "none"

\* C10: an upsert with a coordinate outside [0,19], a height outside [1,10]
\* or a malformed colour fails with InvalidCoordinate, InvalidHeight or
\* InvalidColor and leaves the store and the history unchanged.
C10_RejectStep ==
    (AddStep /\ ExpectedError(lastOp'.x, lastOp'.y) # "none") =>
        /\ lastOp'.error = ExpectedError(lastOp'.x, lastOp'.y)
        /\ pending' = pending
        /\ voxels' = voxels
        /\ history' = history
        /\ historyIndex' = historyIndex

C10_InvalidRejected == [][C10_RejectStep]_vars

\* the entries of a store are voxels of the grid, each under its own key
WellFormedStore(m) ==
    \A i \in 1..Len(m) :
        LET v == m[i].value
        IN  /\ v.x \in 0..(GRID_SIZE - 1)
            /\ v.y \in 0..(GRID_SIZE - 1)
            /\ v.height \in MIN_HEIGHT..MAX_HEIGHT
            /\ m[i].key = getKey(v.x, v.y)
            /\ \A j \in 1..Len(m) :
                   (m[j].value.x = v.x /\ m[j].value.y = v.y) => j = i

\* C11: in every state the editor reaches, each voxel of the store has x and
\* y in [0,19] and a height in [1,10], is stored under the key of its own
\* (x, y), and no cell holds two voxels.
C11_VoxelsWellFormed == WellFormedStore(voxels) /\ WellFormedStore(pending.voxels)

\* C11 witness: a cell that held a voxel was edited again at the greatest
\* height, and the store still holds one voxel
C11_Witness ==
    /\ lastOp.op = "addVoxel"
    /\ Quiet
    /\ Len(voxels) = 1
    /\ voxels[1].value.height = MAX_HEIGHT
    /\ historyIndex >= 1
    /\ historyIndex < Len(history)
    /\ LET before == MapGet(history[historyIndex].voxels, voxels[1].key)
       IN  before # Undefined /\ before.height # MAX_HEIGHT

ClearStep == EventStep /\ lastOp'.op = "clearGrid"

\* C12: after clearGrid the store is empty, whatever it held, and a second
\* clearGrid leaves it empty.
C12_ClearStep ==
    ClearStep =>
        /\ pending'.voxels = EmptyMap
        /\ voxels' = EmptyMap
        /\ (clearGrid(pending))'.voxels = EmptyMap

C12_ClearIdempotent == [][C12_ClearStep]_vars

\* C12 witness: a store of two voxels was cleared, and cleared again
C12_Witness ==
    /\ lastOp.op = "clearGrid"
    /\ Quiet
    /\ voxels = EmptyMap
    /\ historyIndex = Len(history) - 1
    /\ Len(history) >= 3
    /\ history[Len(history) - 1].voxels = EmptyMap
    /\ MapSize(history[Len(history) - 2].voxels) = 2

\* the stores that hold the entries of m, inserted in any order
Reorderings(m) ==
    {[i \in 1..Len(m) |-> m[f[i]]] : f \in Permutations(1..Len(m))}

\* C13: two scene renders of stores with the same content, whatever the
\* order in which the cells were inserted, and the same lighting angle give
\* the same ordered list of polygons and the same viewport.
C13_Deterministic ==
    \A m \in Reorderings(voxels) :
        /\ MapContent(m) = MapContent(voxels)
        /\ generateSceneSVG(m, lightingAngle) = svgContent

\* C13 witness: the cells of the store were not inserted in the order of
\* the scene
C13_Witness ==
    /\ MapSize(voxels) >= 2
    /\ MapValues(voxels) # sortedVoxels(voxels)
    /\ lightingAngle # 45
    /\ Len(svgContent.faces) > 0

\* the lighting angles of the model: the multiples of 15 degrees
Angles == {a \in 0..FULL_TURN : a % LIGHT_STEP = 0}

\* C14: rendering an empty store gives the default scene, with no face and
\* the square viewport (0, 0, 400, 400), whatever the lighting angle.
C14_EmptyScene ==
    MapSize(voxels) = 0 =>
        /\ svgContent.faces = <<>>
        /\ svgContent.viewBox = <<FromInt(0), FromInt(0), FromInt(400), FromInt(400)>>
        /\ \A a \in Angles : generateSceneSVG(voxels, a) = svgContent

\* C14 witness: the store was emptied after an edit and the light was turned
C14_Witness ==
    /\ MapSize(voxels) = 0
    /\ Len(history) >= 2
    /\ lightingAngle # 45

\* C15: in every state reached through the lighting slider and the L and
\* Shift+L keys, starting from 45, the lighting angle the scene is rendered
\* with satisfies 0 <= lightingAngle < 360.
C15_AngleInRange == 0 <= lightingAngle /\ lightingAngle < FULL_TURN

\* the key of the claims' ordering of the voxels: y + 100 * x
OrderKey(v) == v.y + 100 * v.x

\* the faces of the scene are those of the voxels vs[f[1]], vs[f[2]], ...,
\* three for each: right, left, top
FacesInOrder(faces, vs, f, angle) ==
    /\ Len(faces) = 3 * Len(vs)
    /\ \A i \in 1..Len(vs) :
           /\ faces[3 * i - 2] = generateVoxelFace(vs[f[i]], "right", angle)
           /\ faces[3 * i - 1] = generateVoxelFace(vs[f[i]], "left", angle)
           /\ faces[3 * i] = generateVoxelFace(vs[f[i]], "top", angle)

\* C16: the scene of a store of n > 0 voxels has exactly 3n faces: the voxels
\* come in ascending order of y + 100 * x and each gives three consecutive
\* faces, right, left, top.
C16_FaceOrder ==
    MapSize(voxels) > 0 =>
        LET vs == MapValues(voxels)
        IN  /\ Len(svgContent.faces) = 3 * MapSize(voxels)
            /\ \E f \in Permutations(1..Len(vs)) :
                   /\ \A i, j \in 1..Len(vs) :
                          i < j => OrderKey(vs[f[i]]) < OrderKey(vs[f[j]])
                   /\ FacesInOrder(svgContent.faces, vs, f, lightingAngle)

\* C16 witness: three voxels, inserted in another order than that of their keys
C16_Witness ==
    /\ MapSize(voxels) = 3
    /\ Len(svgContent.faces) = 9
    /\ OrderKey(voxels[1].value) > OrderKey(voxels[2].value)

\* voxel b is nearer the viewer than voxel a, or hides part of it
Behind(a, b) == (a.x # b.x \/ a.y # b.y) /\ a.x <= b.x /\ a.y <= b.y

\* C17: for two voxels A and B of the store with A.x <= B.x and A.y <= B.y,
\* every face of A is emitted before every face of B, and the top face of a
\* voxel is emitted after its two side faces.
C17_PainterOrder ==
    MapSize(voxels) > 0 =>
        LET vs == MapValues(voxels)
        IN  \E f \in Permutations(1..Len(vs)) :
                /\ FacesInOrder(svgContent.faces, vs, f, lightingAngle)
                /\ \A i, j \in 1..Len(vs) :
                       Behind(vs[f[i]], vs[f[j]]) => 3 * i < 3 * j - 2

\* C17 witness: a voxel was inserted after one that is nearer the viewer
C17_Witness ==
    /\ MapSize(voxels) >= 2
    /\ Behind(voxels[2].value, voxels[1].value)
    /\ Len(svgContent.faces) >= 6
    /\ svgContent.faces[1].path = generateVoxelFace(voxels[2].value, "right", lightingAngle).path

\* the points of a path
Points(path) == {path[i] : i \in 1..Len(path)}

\* the projected ends of the vertical edge of a voxel nearest the viewer,
\* that of the cell corner (x + 1, y + 1)
NearEdge(v) ==
    {gridToIsometric(v.x + 1, v.y + 1, v.height), gridToIsometric(v.x + 1, v.y + 1, 0)}

\* the face lies in one of the two vertical planes of the voxel that are
\* turned away from the viewer: x = v.x and y = v.y
BackFace(v, faceType) ==
    LET c == FaceCorners(v, faceType)
    IN  \/ \A i \in 1..Len(c) : c[i][1] = v.x
        \/ \A i \in 1..Len(c) : c[i][2] = v.y

\* C18: the three polygons of a voxel are its visible faces: the top quad at
\* z = height and the two side quads, from z = height down to z = 0, that
\* meet at the vertical edge of the corner (x + 1, y + 1); none is a back
\* face of the voxel.
C18_VisibleFaces ==
    \A k \in 1..MapSize(voxels) :
        LET v == voxels[k].value
            top == generateVoxelFace(v, "top", lightingAngle)
            left == generateVoxelFace(v, "left", lightingAngle)
            right == generateVoxelFace(v, "right", lightingAngle)
        IN  /\ \A face \in {top, left, right} :
                   \E i \in 1..Len(svgContent.faces) : svgContent.faces[i] = face
            /\ Points(top.path) =
                   {gridToIsometric(v.x + dx, v.y + dy, v.height) : dx, dy \in {0, 1}}
            /\ NearEdge(v) \subseteq Points(left.path)
            /\ NearEdge(v) \subseteq Points(right.path)
            /\ left.path # right.path
            /\ \A faceType \in {"top", "left", "right"} : ~BackFace(v, faceType)

\* point i of a path relative to its first point, in thousandths divided by
\* ISO_SCALE
Rel(path, i) ==
    [x |-> Thousandths(ExactMinus(path[i].x, path[1].x)) \div ISO_SCALE,
     y |-> Thousandths(ExactMinus(path[i].y, path[1].y)) \div ISO_SCALE]

\* twice the signed area of the quad p1 p2 p3 p4 (shoelace formula), in
\* scene coordinates: its sign is the direction the corners turn in
SignedArea(path) ==
    LET p2 == Rel(path, 2)
        p3 == Rel(path, 3)
        p4 == Rel(path, 4)
    IN  (p2.x * p3.y - p3.x * p2.y) + (p3.x * p4.y - p4.x * p3.y)

\* C19: for every voxel the corners of the top, left and right polygons are
\* listed in the same rotational direction in scene coordinates.
C19_SameRotation ==
    \A k \in 1..MapSize(voxels) :
        LET v == voxels[k].value
            top == SignedArea(generateVoxelFace(v, "top", lightingAngle).path)
            left == SignedArea(generateVoxelFace(v, "left", lightingAngle).path)
            right == SignedArea(generateVoxelFace(v, "right", lightingAngle).path)
        IN  \/ top > 0 /\ left > 0 /\ right > 0
            \/ top < 0 /\ left < 0 /\ right < 0

\* the projected corners of every voxel of the store: 4 at z = height and 4
\* at z = 0
StoreCorners ==
    LET all == {<<k, dx, dy, z>> \in
                   (1..Len(voxels)) \X {0, 1} \X {0, 1} \X (0..MAX_HEIGHT) :
                   z \in {0, voxels[k].value.height}}
    IN  {gridToIsometric(voxels[q[1]].value.x + q[2],
                         voxels[q[1]].value.y + q[3], q[4]) : q \in all}

\* the least and the greatest of a set of doubles
Least(S) == CHOOSE a \in S : \A b \in S : ~Less(b, a)

Greatest(S) == CHOOSE a \in S : \A b \in S : ~Less(a, b)

\* the distances of p from the four sides of the box, as real numbers
Margins(p, box) ==
    {ExactMinus(p.x, box[1]), ExactMinus(ExactPlus(box[1], box[3]), p.x),
     ExactMinus(p.y, box[2]), ExactMinus(ExactPlus(box[2], box[4]), p.y)}

\* the points of the faces of the scene
FacePoints ==
    LET faces == svgContent.faces
    IN  UNION {Points(faces[i].path) : i \in 1..Len(faces)}

\* 2^-40: more than the three roundings of a side of the viewport add up to
TOLERANCE == [s |-> 1, m |-> <<0, 0, 16384>>]

\* C20 as stated, in real arithmetic: the viewport of a non-empty store is
\* the bounding box of the 8 projected corners of every voxel, expanded by 40
\* units on each side: origin (minX - 40, minY - 40), width maxX - minX + 80,
\* height maxY - minY + 80; every corner of every face lies at least 40 units
\* inside it.
C20_ViewportExact ==
    MapSize(voxels) > 0 =>
        LET xs == {p.x : p \in StoreCorners}
            ys == {p.y : p \in StoreCorners}
            minX == Least(xs)
            maxX == Greatest(xs)
            minY == Least(ys)
            maxY == Greatest(ys)
            box == svgContent.viewBox
        IN  /\ box = <<ExactMinus(minX, FromInt(40)), ExactMinus(minY, FromInt(40)),
                       ExactPlus(ExactMinus(maxX, minX), FromInt(80)),
                       ExactPlus(ExactMinus(maxY, minY), FromInt(80))>>
            /\ \A p \in FacePoints : \A d \in Margins(p, box) : ~Less(d, FromInt(40))

\* C20 (amended): the viewport of a non-empty store is the bounding box of
\* the 8 projected corners of every voxel, expanded by 40 units on each side
\* in double arithmetic, each - and + rounded: origin (minX - 40, minY - 40),
\* width (maxX - minX) + 80, height (maxY - minY) + 80; every corner of
\* every face lies inside it, at least 40 - 2^-40 units from each side.
C20_Viewport ==
    MapSize(voxels) > 0 =>
        LET xs == {p.x : p \in StoreCorners}
            ys == {p.y : p \in StoreCorners}
            minX == Least(xs)
            maxX == Greatest(xs)
            minY == Least(ys)
            maxY == Greatest(ys)
            box == svgContent.viewBox
        IN  /\ box = <<Minus(minX, FromInt(40)), Minus(minY, FromInt(40)),
                       Plus(Minus(maxX, minX), FromInt(80)),
                       Plus(Minus(maxY, minY), FromInt(80))>>
            /\ \A p \in FacePoints :
                   \A d \in Margins(p, box) : ~Less(ExactPlus(d, TOLERANCE), FromInt(40))

\* C20 witness: two voxels of different heights, far apart on the grid
C20_Witness ==
    /\ MapSize(voxels) = 2
    /\ voxels[1].value.height # voxels[2].value.height
    /\ voxels[1].value.y # voxels[2].value.y
    /\ Less(Plus(FromInt(80), Times(Times(COS_ISO, 2), ISO_SCALE)), svgContent.viewBox[3])
    /\ Len(svgContent.faces) = 6

\* C21: for every lighting angle the top face of every voxel is filled with
\* the colour of the voxel unchanged: the fill string equals the stored
\* colour string ('#3B82F6' gives the top fill '#3B82F6').
C21_TopFillUnchanged ==
    \A k \in 1..MapSize(voxels) :
        LET v == voxels[k].value
        IN  /\ \A a \in Angles : generateVoxelFace(v, "top", a).fill = v.color
            /\ \E i \in 1..Len(svgContent.faces) :
                   /\ svgContent.faces[i].path = generateVoxelFace(v, "top", lightingAngle).path
                   /\ svgContent.faces[i].fill = v.color

-----------------------------------------------------------------------------
\* the i-th channel (1 red, 2 green, 3 blue) of a colour '#rrggbb'
Channel(s, i) ==
    HexValue(SubSeq(s, 2 * i, 2 * i)) * 16 + HexValue(SubSeq(s, 2 * i + 1, 2 * i + 1))

Clamp255(n) == IF n < 0 THEN 0 ELSE IF n > 255 THEN 255 ELSE n

\* C22: for a colour of six hex digits and an integer amount, adjustBrightness
\* returns '#' followed by exactly six hex digits, and each of the red, green
\* and blue channels of the result is min(255, max(0, channel + amount)) of
\* the same channel of the argument.
C22_AdjustBrightness ==
    colorCall # NoCall =>
        /\ Len(colorCall.result) = 7
        /\ SubSeq(colorCall.result, 1, 1) = "#"
        /\ \A i \in 2..7 : IsHexDigit(SubSeq(colorCall.result, i, i))
        /\ \A i \in 1..3 :
               Channel(colorCall.result, i) =
                   Clamp255(Channel(colorCall.hex, i) + colorCall.amount)

\* a call that clamps the red channel at 0 and lowers green and blue by 20
C22_Witness ==
    /\ colorCall.hex = "#003Bff"
    /\ colorCall.amount = -20
    /\ colorCall.result = "#0027eb"

-----------------------------------------------------------------------------
\* the document an export of the store m under the lighting angle contains
ExportedDocument(m, angle) == addSVGMetadata(optimizeSVG(generateSceneSVG(m, angle)))

LastDownload == downloads[Len(downloads)]

\* C23 for one step.  A call of handleExport that suspends holds the store
\* and the lighting angle of the render it was triggered in; no event handled
\* while the conversion is pending changes what it holds; the file downloaded
\* when the conversion completes contains the scene of that store under that
\* angle, whatever the store and the angle have become; an SVG, downloaded in
\* the triggering event itself, contains the scene of the store and angle of
\* that event.
C23_ExportStep ==
    /\ (exportJob = NoJob /\ exportJob' # NoJob) =>
           /\ exportJob'.voxels = voxels
           /\ exportJob'.lightingAngle = lightingAngle
    /\ (exportJob # NoJob /\ exportJob' # NoJob) => exportJob' = exportJob
    /\ (exportJob # NoJob /\ Len(downloads') > Len(downloads)) =>
           /\ Len(downloads') = Len(downloads) + 1
           /\ LastDownload'.href.image =
                  ExportedDocument(exportJob.voxels, exportJob.lightingAngle)
    /\ (exportJob = NoJob /\ Len(downloads') > Len(downloads)) =>
           /\ Len(downloads') = Len(downloads) + 1
           /\ LastDownload'.href.image = ExportedDocument(voxels, lightingAngle)

\* C23: an export renders the store and the lighting angle captured when it
\* is triggered: edits, undo, redo, clear and turns of the light handled
\* while the conversion to a bitmap is pending do not change the image that
\* is downloaded.
C23_CapturedAtTrigger == [][C23_ExportStep]_vars

\* a bitmap has just been downloaded and the store of the current render is
\* not the one it shows, under any lighting angle: the store was edited
\* while the conversion was pending
C23_Witness ==
    /\ lastOp.op = "load"
    /\ Len(downloads) > 0
    /\ LastDownload.href.mimeType = "image/png"
    /\ hasVoxels
    /\ \A a \in Angles :
           LastDownload.href.image.document.faces # generateSceneSVG(voxels, a).faces

-----------------------------------------------------------------------------
\* no snapshot has been taken: the state before the first edit
NoSnapshot == history = <<>> /\ historyIndex = -1

\* the history holds the snapshot of the first edit and nothing else
OnlyFirstSnapshot == Len(history) = 1 /\ historyIndex = 0

\* C24 for one state: the session starts with an empty store, no snapshot and
\* index -1, and the store stays empty until the first snapshot is taken.
C24_State ==
    /\ clock = 0 => NoSnapshot
    /\ (history = <<>>) = (historyIndex = -1)
    /\ NoSnapshot => voxels = EmptyMap

\* C24 for one step: the first edit leaves one snapshot, which holds the
\* store as the edit left it and not the empty grid before it, and index 0;
\* canUndo is false and undo changes nothing there; while that snapshot is
\* the only one, undo and redo leave the store, the snapshots and the index
\* as they are, so the store stays as the first edit left it.
C24_Step ==
    /\ (SaveStep /\ pending.history = <<>>) =>
           /\ NoSnapshot
           /\ OnlyFirstSnapshot'
           /\ history'[1].voxels = voxels'
           /\ lastOp'.op = "addVoxel" => voxels' # EmptyMap
           /\ ~canUndo'
           /\ (undo(pending))' = pending'
    /\ ((UndoStep \/ RedoStep) /\ OnlyFirstSnapshot /\ Quiet) =>
           /\ pending' = pending
           /\ voxels' = voxels
           /\ OnlyFirstSnapshot'
           /\ voxels' = history'[1].voxels

\* C24: the initial empty grid is never a snapshot: the first edit of the
\* session leaves index 0 with canUndo false and undo a no-op, and no
\* sequence of undo and redo brings back the store of before that edit.
C24_NoInitialSnapshot == []C24_State /\ [][C24_Step]_vars

\* a cell was painted, then Ctrl+Z and Ctrl+Y were pressed: the voxel of the
\* first edit is still in the store
C24_Witness ==
    /\ clock = 3
    /\ lastOp.op = "redo"
    /\ OnlyFirstSnapshot
    /\ MapSize(voxels) = 1
    /\ MapSize(history[1].voxels) = 1

-----------------------------------------------------------------------------
\* the event of the step called removeVoxel on a cell that holds no voxel
RemoveNothingStep ==
    /\ EventStep
    /\ lastOp'.op = "removeVoxel"
    /\ ~MapHas(voxels, getKey(lastOp'.x, lastOp'.y))

\* the step has put a snapshot of the new store, taken at this event, at the
\* end of the snapshots kept up to the index
AppendsSnapshot ==
    LET newHistory == pending'.history
    IN  /\ Len(newHistory) = Min2(MAX_HISTORY, Len(Slice0(history, historyIndex + 1)) + 1)
        /\ newHistory[Len(newHistory)].timestamp = now
        /\ newHistory[Len(newHistory)].voxels = pending'.voxels

\* C25 for one step
C25_Step ==
    /\ RemoveNothingStep =>
           /\ pending' = pending
           /\ lastOp'.error = "none"
           /\ (Quiet => (Rendered' = Rendered /\ canRedo' = canRedo))
    /\ (EventStep /\ lastOp'.op \in {"addVoxel", "clearGrid"}) => AppendsSnapshot
    /\ (EventStep /\ lastOp'.op = "clearGrid") => pending'.voxels = EmptyMap

\* C25: removeVoxel on a cell that holds no voxel leaves the store, the
\* snapshots and the index unchanged and keeps the snapshots beyond the
\* index; addVoxel and clearGrid append a snapshot in every case, also when
\* the new store has the content of the previous one.
C25_FrameAndAppend == [][C25_Step]_vars

\* a voxel was added twice in the same way, leaving two snapshots of equal
\* content; after an undo, removeVoxel on an empty cell has kept the second
C25_Witness ==
    /\ lastOp.op = "removeVoxel"
    /\ ~MapHas(voxels, getKey(lastOp.x, lastOp.y))
    /\ Quiet
    /\ canRedo
    /\ Len(history) = 2
    /\ historyIndex = 0
    /\ history[1].voxels = history[2].voxels

-----------------------------------------------------------------------------
\* C26 after the gesture: the last two snapshots hold the same content, which
\* is the store; the click has left a drag mode but no drag in progress, and
\* the pointer moving over a cell after it has painted nothing.
C26_AfterClick ==
    clock >= session.budget + 3 =>
        LET n == Len(history)
        IN  /\ n >= 2
            /\ history[n - 1].voxels = history[n].voxels
            /\ voxels = history[n].voxels
            /\ MapHas(voxels, getKey(session.cell[1], session.cell[2]))
            /\ pending = Rendered
            /\ ~isDragging
            /\ dragMode = "add"

\* C26 for one step: the mousedown and the click of the gesture each append
\* a snapshot; a drag starts with an edit event on a cell (mousedown,
\* touchstart) and ends with mouseup or touchend; an event that queues an
\* update without a render (the pointer or the touch point moving over a
\* cell) is handled while a drag is in progress.
C26_DragStep ==
    /\ (EventStep /\ clock \in {session.budget, session.budget + 2}) =>
           (lastOp'.op = "addVoxel" /\ AppendsSnapshot)
    /\ (~isDragging /\ isDragging') =>
           /\ lastOp'.op \in {"addVoxel", "removeVoxel"}
           /\ dragMode' # NULL
    /\ (isDragging /\ ~isDragging') => lastOp'.op \in {"mouseup", "touchend"}
    /\ (EventStep /\ lastOp'.op \in {"mouseup", "touchend"}) =>
           (~isDragging' /\ dragMode' = NULL)
    /\ (EventStep /\ pending' # pending /\ Rendered' = Rendered) =>
           (isDragging /\ dragMode # NULL)
    /\ (EventStep /\ lastOp'.op \in {"hover", "touchmove"}) =>
           (pending' = pending /\ (~isDragging \/ dragMode = NULL))

\* C26: a click of the primary button on a cell (mousedown, mouseup, click)
\* adds the voxel twice, from the mousedown handler and from the click
\* handler, and leaves two snapshots of identical content; the pointer
\* moving over cells paints only while a drag is in progress, between
\* mousedown or touchstart and the next mouseup or touchend.
C26_ClickGesture == []C26_AfterClick /\ [][C26_DragStep]_vars

\* a cell of the empty grid was clicked, leaving two snapshots, and the
\* pointer then moved over the other cell without painting it
C26_Witness ==
    /\ clock = session.budget + 4
    /\ lastOp.op = "hover"
    /\ ~MapHas(voxels, getKey(lastOp.x, lastOp.y))
    /\ dragMode = "add"
    /\ Len(history) = 2
    /\ history[1].voxels = history[2].voxels
    /\ session.budget = 0

====
